---- MODULE Spec2Model ----
(***************************************************************************)
(* A model of the free-camera tool: the foreign-process memory accessor,   *)
(* the code patch manager (patch_with_nops / restore_patch), the patch     *)
(* target discovery, the pointer-chain resolver and the run loop of main   *)
(* that toggles the patch and ticks the camera controller.                 *)
(*                                                                         *)
(* The operating system is the environment.  Every OS call takes an        *)
(* outcome as input: it fails (returns 0, moves nothing) or it reports     *)
(* success having moved n bytes; the source itself tells a complete        *)
(* transfer from a short one (process.rs:333, bytes_read == 2).            *)
(***************************************************************************)
EXTENDS Integers, Sequences, FiniteSets, TLC

(***************************************************************************)
(* Bounds of the model.                                                    *)
(***************************************************************************)
\* the longest patch the harness applies (main always asks for 2 bytes)
MaxPatchLen == 2
\* how many patch operations (apply or restore calls) a run issues
MaxOps == 3
\* the longest pointer chain the resolver is given
MaxChain == 3

(***************************************************************************)
(* Program constants.                                                      *)
(***************************************************************************)
\* 0x90, the no-operation opcode (process.rs:190)
NOP == 144
\* PAGE_EXECUTE_READWRITE = 0x40 (winnt.h, used at process.rs:179)
PAGE_EXECUTE_READWRITE == 64
\* PAGE_EXECUTE_READ = 0x20 and PAGE_EXECUTE = 0x10: protections a code page
\* of the target can have before the tool touches it
PAGE_EXECUTE_READ == 32
PAGE_EXECUTE == 16
\* the length main passes to patch_with_nops (main.rs:148, 164)
PATCH_LENGTH == 2
\* process.rs:308, 309
text_section_offset == 4096
instruction_offset == 1487588
\* 0x004E1E78 (process.rs:347)
base_offset == 5119608
\* the "repe movsd" signature F3 A5 (process.rs:335)
SIG0 == 243
SIG1 == 165
\* the load address of the target's first module (a 32-bit image base, 0x400000)
base_addr == 4194304
\* the size of a page of the target, the unit of VirtualProtectEx
PAGE_SIZE == 4096
\* some other instruction bytes found at a candidate that is not the site (8B 45)
OTHER0 == 139
OTHER1 == 69
\* what mem::zeroed / vec![0u8; n] put in a buffer before the OS fills it
ZERO == 0

(***************************************************************************)
(* Option<T> is a sequence of length at most one.                          *)
(***************************************************************************)
None == <<>>
Some(x) == <<x>>

(***************************************************************************)
(* The target process: code bytes and page protections.                    *)
(***************************************************************************)
\* process.rs:312-316, in the order they are tried
addresses_to_try(base_address) ==
    << base_address + instruction_offset,
       base_address + text_section_offset + instruction_offset,
       base_address + instruction_offset - text_section_offset >>

Sites == { addresses_to_try(base_addr)[i] : i \in 1..3 }

Page(address) == address \div PAGE_SIZE

ByteAddrs == UNION { s .. (s + MaxPatchLen - 1) : s \in Sites }
Pages == { Page(a) : a \in ByteAddrs }

\* the bytes of the instruction stream at a candidate: the signature, or not
SigBytes(i) == IF i = 0 THEN SIG0 ELSE IF i = 1 THEN SIG1 ELSE OTHER0 + i
OtherBytes(i) == IF i = 0 THEN OTHER0 ELSE IF i = 1 THEN OTHER1 ELSE OTHER1 + i

\* the outcomes the OS can give a transfer of len bytes: failure, or success
\* reported with n bytes moved, all of them or one fewer
TransferOutcomes(len) ==
    { [ok |-> FALSE, n |-> 0] } \cup { [ok |-> TRUE, n |-> k] : k \in (len - 1)..len }

\* len bytes of m starting at address
BytesAt(m, address, len) == [ i \in 1..len |-> m[address + i - 1] ]

\* ReadProcessMemory into a zero-filled buffer of len bytes
ReadProcessMemory(m, address, len, o) ==
    [ result     |-> IF o.ok THEN 1 ELSE 0,
      bytes_read |-> o.n,
      buffer     |-> [ i \in 1..len |->
                         IF o.ok /\ i <= o.n THEN m[address + i - 1] ELSE ZERO ] ]

\* WriteProcessMemory of the len bytes of data
WriteProcessMemory(m, address, data, len, o) ==
    [ result        |-> IF o.ok THEN 1 ELSE 0,
      bytes_written |-> o.n,
      mem           |-> [ a \in DOMAIN m |->
                            IF o.ok /\ a >= address /\ a < address + o.n
                            THEN data[a - address + 1] ELSE m[a] ] ]

\* VirtualProtectEx: on success the page takes new_protect and the previous
\* protection is stored through the out pointer; on failure nothing changes
VirtualProtectEx(p, address, new_protect, old_protect, ok) ==
    IF ok
    THEN [ result |-> 1, prot |-> [p EXCEPT ![Page(address)] = new_protect],
           old_protect |-> p[Page(address)] ]
    ELSE [ result |-> 0, prot |-> p, old_protect |-> old_protect ]

\* an entry of the log of OS calls an operation issued
Call(name, address, arg, result) ==
    [ call |-> name, address |-> address, arg |-> arg, ok |-> (result # 0) ]

(***************************************************************************)
(* Code Patch Manager (process.rs:152-299).                                *)
(*                                                                         *)
(* An operation takes the target's bytes m and protections p and the       *)
(* outcomes o of the OS calls it may issue (o.rd: the read, o.p1: the      *)
(* protection relaxation, o.wr: the write, o.p2: the protection restore)   *)
(* and gives the target after it, its result and the OS calls it issued.   *)
(***************************************************************************)
CodePatch(address, original_bytes, is_applied) ==
    [ address |-> address, original_bytes |-> original_bytes,
      is_applied |-> is_applied ]

\* process.rs:190
nop_bytes(length) == [ i \in 1..length |-> NOP ]

\* the mutant of patch_write_failed: the early return forgets the protection
patch_write_failed_no_unprotect(m, vp, address, log, o) ==
    [ ok |-> FALSE, err |-> "Failed to write NOP bytes",
      mem |-> m, prot |-> vp.prot, patch |-> None, log |-> log ]

\* process.rs:204-216: the write failed; put the protection back, return Err
patch_write_failed(m, vp, address, log, o) ==
    LET vr == VirtualProtectEx(vp.prot, address, vp.old_protect, vp.old_protect, o.p2)
    IN  [ ok |-> FALSE, err |-> "Failed to write NOP bytes",
          mem |-> m, prot |-> vr.prot, patch |-> None,
          log |-> Append(log, Call("VirtualProtectEx", address, vp.old_protect, vr.result)) ]

\* process.rs:218-233: the write was reported successful; put the protection
\* back (the result of that call is not looked at) and return the patch
patch_written(m, vp, address, original_bytes, log, o) ==
    LET vr == VirtualProtectEx(vp.prot, address, vp.old_protect, vp.old_protect, o.p2)
    IN  [ ok |-> TRUE, err |-> "",
          mem |-> m, prot |-> vr.prot,
          patch |-> Some(CodePatch(address, original_bytes, TRUE)),
          log |-> Append(log, Call("VirtualProtectEx", address, vp.old_protect, vr.result)) ]

\* the mutant of patch_read_failed: the result of the read is not looked at
patch_read_failed_ignored(rd) == FALSE

\* process.rs:167: only the return value of the read decides (bytes_read is
\* never looked at)
patch_read_failed(rd) == rd.result = 0

\* process.rs:152-234
patch_with_nops(m, p, address, length, o) ==
    LET rd   == ReadProcessMemory(m, address, length, o.rd)
        log1 == << Call("ReadProcessMemory", address, length, rd.result) >>
    IN  IF patch_read_failed(rd)
        THEN [ ok |-> FALSE, err |-> "Failed to read original bytes",
               mem |-> m, prot |-> p, patch |-> None, log |-> log1 ]
        ELSE
        LET vp   == VirtualProtectEx(p, address, PAGE_EXECUTE_READWRITE, 0, o.p1)
            log2 == Append(log1, Call("VirtualProtectEx", address,
                                      PAGE_EXECUTE_READWRITE, vp.result))
        IN  IF vp.result = 0
            THEN [ ok |-> FALSE, err |-> "Failed to change memory protection",
                   mem |-> m, prot |-> p, patch |-> None, log |-> log2 ]
            ELSE
            LET wr   == WriteProcessMemory(m, address, nop_bytes(length), length, o.wr)
                log3 == Append(log2, Call("WriteProcessMemory", address, length, wr.result))
            IN  IF wr.result = 0
                THEN patch_write_failed(wr.mem, vp, address, log3, o)
                ELSE patch_written(wr.mem, vp, address, rd.buffer, log3, o)

\* process.rs:272-284: the write failed; put the protection back, return Err
restore_write_failed(m, vp, patch, log, o) ==
    LET vr == VirtualProtectEx(vp.prot, patch.address, vp.old_protect, vp.old_protect, o.p2)
    IN  [ ok |-> FALSE, err |-> "Failed to restore original bytes",
          mem |-> m, prot |-> vr.prot, patch |-> Some(patch),
          log |-> Append(log, Call("VirtualProtectEx", patch.address,
                                   vp.old_protect, vr.result)) ]

\* process.rs:286-298
restore_written(m, vp, patch, log, o) ==
    LET vr == VirtualProtectEx(vp.prot, patch.address, vp.old_protect, vp.old_protect, o.p2)
    IN  [ ok |-> TRUE, err |-> "",
          mem |-> m, prot |-> vr.prot,
          patch |-> Some([patch EXCEPT !.is_applied = FALSE]),
          log |-> Append(log, Call("VirtualProtectEx", patch.address,
                                   vp.old_protect, vr.result)) ]

\* process.rs:241-298: protect, write the original bytes, unprotect
restore_patch_steps(m, p, patch, o) ==
    LET length == Len(patch.original_bytes)
        vp   == VirtualProtectEx(p, patch.address, PAGE_EXECUTE_READWRITE, 0, o.p1)
        log1 == << Call("VirtualProtectEx", patch.address,
                        PAGE_EXECUTE_READWRITE, vp.result) >>
    IN  IF vp.result = 0
        THEN [ ok |-> FALSE, err |-> "Failed to change memory protection",
               mem |-> m, prot |-> p, patch |-> Some(patch), log |-> log1 ]
        ELSE
        LET wr   == WriteProcessMemory(m, patch.address, patch.original_bytes, length, o.wr)
            log2 == Append(log1, Call("WriteProcessMemory", patch.address,
                                      length, wr.result))
        IN  IF wr.result = 0
            THEN restore_write_failed(wr.mem, vp, patch, log2, o)
            ELSE restore_written(wr.mem, vp, patch, log2, o)

\* the mutant of restore_patch: the is_applied guard is missing
restore_patch_unguarded(m, p, patch, o) == restore_patch_steps(m, p, patch, o)

\* process.rs:236-299
restore_patch(m, p, patch, o) ==
    IF ~patch.is_applied
    THEN [ ok |-> FALSE, err |-> "Patch is not currently applied",
           mem |-> m, prot |-> p, patch |-> Some(patch), log |-> << >> ]
    ELSE restore_patch_steps(m, p, patch, o)

\* a call that succeeds completely
Complete(length) == [ok |-> TRUE, n |-> length]

\* the outcomes of the four OS calls of patch_with_nops; a call that is not
\* issued (an earlier one failed) has no outcome to choose
PatchOutcomes(length) ==
    { o \in [ rd : TransferOutcomes(length), p1 : BOOLEAN,
              wr : TransferOutcomes(length), p2 : BOOLEAN ] :
        (~o.rd.ok \/ ~o.p1) => (o.wr = Complete(length) /\ o.p2) }

\* the outcomes of the three OS calls of restore_patch
RestoreOutcomes(length) ==
    { o \in [ p1 : BOOLEAN, wr : TransferOutcomes(length), p2 : BOOLEAN ] :
        ~o.p1 => (o.wr = Complete(length) /\ o.p2) }

(***************************************************************************)
(* Patch target discovery (process.rs:301-343).  outs[i] is the outcome of *)
(* the 2-byte probe read of the i-th candidate.                            *)
(***************************************************************************)
\* process.rs:333-337: the probe read succeeded, was complete, and shows F3 A5
probe_matches(rd) ==
    /\ rd.result # 0
    /\ rd.bytes_read = 2
    /\ rd.buffer[1] = SIG0
    /\ rd.buffer[2] = SIG1

\* the mutant of get_camera_write_patch_address: the last match is returned
get_camera_write_patch_address_last(m, base_address, outs) ==
    LET cand == addresses_to_try(base_address)
        hits == { i \in 1..3 :
                    probe_matches(ReadProcessMemory(m, cand[i], 2, outs[i])) }
    IN  [ ok   |-> TRUE,
          addr |-> IF hits = {} THEN cand[1]
                   ELSE cand[CHOOSE i \in hits : \A j \in hits : i >= j],
          log  |-> << >> ]

get_camera_write_patch_address(m, base_address, outs) ==
    LET cand     == addresses_to_try(base_address)
        probe(i) == ReadProcessMemory(m, cand[i], 2, outs[i])
        hits     == { i \in 1..3 : probe_matches(probe(i)) }
        first    == IF hits = {} THEN 3
                    ELSE CHOOSE i \in hits : \A j \in hits : i <= j
    IN  [ ok   |-> TRUE,
          addr |-> IF hits = {} THEN cand[1] ELSE cand[first],
          log  |-> [ i \in 1..first |->
                       Call("ReadProcessMemory", cand[i], 2, probe(i).result) ] ]

\* the outcomes of the three probe reads
ProbeOutcomes == [ 1..3 -> TransferOutcomes(2) ]

(***************************************************************************)
(* Pointer-Chain Resolver (process.rs:117-150).                            *)
(*                                                                         *)
(* An address of the resolver is a usize and a pointer read from the       *)
(* target a u32; both go up to and beyond 2^31, so a value v is kept as    *)
(* the pair << v \div 65536, v % 65536 >> of its high and low halves.      *)
(***************************************************************************)
\* the pair of a number below 2^31
Wide(n) == << n \div 65536, n % 65536 >>
\* the number of a pair, where it is below 2^31
Narrow(v) == v[1] * 65536 + v[2]
\* v + offset (usize addition, process.rs:124, 140)
AddOffset(v, offset) ==
    << v[1] + ((v[2] + offset) \div 65536), (v[2] + offset) % 65536 >>
\* v < w
Less(v, w) == v[1] < w[1] \/ (v[1] = w[1] /\ v[2] < w[2])

\* 0x10000 and 0x7FFFFFFF (process.rs:135)
MIN_POINTER == << 1, 0 >>
MAX_POINTER == << 32767, 65535 >>

\* the first n bytes (little-endian) of the u32 v, the other bytes zero: what
\* a zeroed u32 buffer holds after n bytes were moved into it
FirstBytes(v, n) ==
    IF n >= 4 THEN v
    ELSE IF n = 3 THEN << v[1] % 256, v[2] >>
    ELSE IF n = 2 THEN << 0, v[2] >>
    ELSE IF n = 1 THEN << 0, v[2] % 256 >>
    ELSE << 0, 0 >>

\* process.rs:50-70 with T = u32: Err when ReadProcessMemory returns 0 (as
\* it does at an address the target has not mapped), else the buffer,
\* whatever the count of bytes read
read_memory_u32(pm, address, o) ==
    IF address \notin DOMAIN pm \/ ~o.ok
    THEN [ ok |-> FALSE, value |-> << 0, 0 >> ]
    ELSE [ ok |-> TRUE, value |-> FirstBytes(pm[address], o.n) ]

\* the mutant of pointer_out_of_range: the upper bound is off by one
pointer_out_of_range_tight(current_address) ==
    Less(current_address, MIN_POINTER) \/ ~Less(current_address, MAX_POINTER)

\* process.rs:135
pointer_out_of_range(current_address) ==
    Less(current_address, MIN_POINTER) \/ Less(MAX_POINTER, current_address)

\* the mutant of is_last_offset: every offset is dereferenced
is_last_offset_never(i, offsets) == FALSE

\* another mutant of is_last_offset: the last two offsets are only added
is_last_offset_early(i, offsets) == i >= Len(offsets) - 1

\* process.rs:122, with i counted from 1
is_last_offset(i, offsets) == i = Len(offsets)

\* process.rs:121-147: the loop from its i-th iteration on (i counted from
\* 1; the source's step index is i - 1); outs[i] is the outcome of the read
\* of iteration i, log the reads issued so far
RECURSIVE resolve_from(_, _, _, _, _, _)
resolve_from(pm, current_address, offsets, i, outs, log) ==
    IF i > Len(offsets)
    THEN [ ok |-> TRUE, err |-> "", step |-> 0, value |-> << 0, 0 >>,
           addr |-> current_address, log |-> log ]
    ELSE IF is_last_offset(i, offsets)
    THEN resolve_from(pm, AddOffset(current_address, offsets[i]), offsets,
                      i + 1, outs, log)
    ELSE
    LET rd   == read_memory_u32(pm, current_address, outs[i])
        log1 == Append(log, [ address |-> current_address, ok |-> rd.ok,
                              value |-> rd.value ])
    IN  IF ~rd.ok
        THEN [ ok |-> FALSE, err |-> "Failed to read pointer", step |-> i - 1,
               value |-> << 0, 0 >>, addr |-> << 0, 0 >>, log |-> log1 ]
        ELSE IF rd.value = << 0, 0 >>
        THEN [ ok |-> FALSE, err |-> "Null pointer", step |-> i - 1,
               value |-> << 0, 0 >>, addr |-> << 0, 0 >>, log |-> log1 ]
        ELSE IF pointer_out_of_range(rd.value)
        THEN [ ok |-> FALSE, err |-> "Invalid pointer value", step |-> i - 1,
               value |-> rd.value, addr |-> << 0, 0 >>, log |-> log1 ]
        ELSE resolve_from(pm, AddOffset(rd.value, offsets[i]), offsets,
                          i + 1, outs, log1)

\* process.rs:117-150
resolve_pointer_chain(pm, base_address, offsets, outs) ==
    resolve_from(pm, base_address, offsets, 1, outs, << >>)

\* no call yet
NotResolved ==
    [ called |-> FALSE, base_address |-> << 0, 0 >>, offsets |-> << >>,
      outs |-> << >>, target_before |-> << >>,
      res |-> [ ok |-> FALSE, err |-> "", step |-> 0, value |-> << 0, 0 >>,
                addr |-> << 0, 0 >>, log |-> << >> ] ]

(***************************************************************************)
(* The typed accessor (process.rs:50-90) on the bytes of the target, with  *)
(* a T of four bytes (u32 and f32 are the types the tool reads and writes).*)
(***************************************************************************)
\* mem::size_of::<T>() for u32 and f32
SIZE_OF_T == 4

\* process.rs:50-70: Err when ReadProcessMemory returns 0, else the buffer
\* (zeroed before the call), whatever bytes_read says
read_memory(m, address, o) ==
    LET rd == ReadProcessMemory(m, address, SIZE_OF_T, o)
    IN  [ ok    |-> rd.result # 0,
          value |-> rd.buffer, moved |-> rd.bytes_read, mem |-> m ]

\* process.rs:72-90: Err when WriteProcessMemory returns 0, else Ok,
\* whatever bytes_written says
write_memory(m, address, value, o) ==
    LET wr == WriteProcessMemory(m, address, value, SIZE_OF_T, o)
    IN  [ ok    |-> wr.result # 0,
          value |-> value, moved |-> wr.bytes_written, mem |-> wr.mem ]

\* no call yet
NoAccess ==
    [ called |-> FALSE, op |-> "none", address |-> 0, ok |-> FALSE,
      moved |-> 0, value |-> << >>, mem_before |-> << >> ]

(***************************************************************************)
(* Numbers.  An f32 of the program (a matrix element, a coordinate, a      *)
(* speed, a mouse delta) is kept in thousandths, an angle in millionths of *)
(* a radian.                                                               *)
(***************************************************************************)
\* one, in thousandths
ONE == 1000

\* the f32 product of two numbers in thousandths, rounded to the nearest
Mul(a, b) ==
    IF a * b >= 0 THEN (a * b + (ONE \div 2)) \div ONE
                  ELSE -((-(a * b) + (ONE \div 2)) \div ONE)

Abs(a) == IF a < 0 THEN -a ELSE a

\* f32::min, f32::max and f32::clamp
Min(a, b) == IF a < b THEN a ELSE b
Max(a, b) == IF a > b THEN a ELSE b
Clamp(a, lo, hi) == IF a < lo THEN lo ELSE IF a > hi THEN hi ELSE a

\* std::f32::consts::FRAC_PI_2 and PI, in millionths of a radian
FRAC_PI_2 == 1570796
PI == 3141593
\* pi in thousandths of a radian
PI_MILLI == 3142

\* f32::sin of an angle of the first half turn given in thousandths of a
\* radian, in thousandths (the rational 16 t / (5 pi^2 - 4 t) with
\* t = x (pi - x), which is 0, 1 and 0 at 0, pi/2 and pi)
SinHalfTurn(xm) ==
    LET t   == xm * (PI_MILLI - xm)
        den == (5 * PI_MILLI * PI_MILLI - 4 * t) \div 40
    IN  (400 * t + (den \div 2)) \div den

\* f32::sin, f32::cos: the angle is brought into one turn first
Sin(x) ==
    LET r == x % (2 * PI)
    IN  IF r < PI THEN SinHalfTurn((r + 500) \div 1000)
                  ELSE -SinHalfTurn((r - PI + 500) \div 1000)
Cos(x) == Sin(x + FRAC_PI_2)

\* f32::asin at -1, 0 and 1 (the values an axis-aligned basis holds) and at
\* -0.5 and 0.5 (a basis tilted by a twelfth of a turn)
Asin(v) ==
    IF v = ONE THEN FRAC_PI_2
    ELSE IF v = -ONE THEN -FRAC_PI_2
    ELSE IF v = ONE \div 2 THEN PI \div 6
    ELSE IF v = -(ONE \div 2) THEN -(PI \div 6)
    ELSE 0

\* f32::atan2(z, x) on the axes; a zero of the target negated by
\* get_forward is -0.0, for which atan2 gives -0.0 right of the origin and
\* -pi left of it and at it
Atan2(z, x) ==
    IF z > 0 THEN FRAC_PI_2
    ELSE IF z < 0 THEN -FRAC_PI_2
    ELSE IF x > 0 THEN 0
    ELSE -PI

(***************************************************************************)
(* Camera transform (camera.rs): data[0..15], row-major.                   *)
(***************************************************************************)
CameraPosition(x, y, z) == [ x |-> x, y |-> y, z |-> z ]

\* camera.rs:31-33
get_position(data) == CameraPosition(data[12], data[13], data[14])

\* camera.rs:21-29: the identity
CameraMatrix_new ==
    [ i \in 0..15 |-> IF i \in { 0, 5, 10, 15 } THEN ONE ELSE 0 ]

\* the mutant of set_position: y and z change places
set_position_swapped(data, pos) ==
    [ data EXCEPT ![12] = pos.x, ![13] = pos.z, ![14] = pos.y ]

\* camera.rs:35-39
set_position(data, pos) ==
    [ data EXCEPT ![12] = pos.x, ![13] = pos.y, ![14] = pos.z ]

\* the mutant of apply_pitch: the position is turned with the rows
apply_pitch_with_position(data, angle) ==
    LET cos_a == Cos(angle)
        sin_a == Sin(angle)
    IN  [ data EXCEPT
            ![1]  = Mul(data[1], cos_a) - Mul(data[2], sin_a),
            ![2]  = Mul(data[1], sin_a) + Mul(data[2], cos_a),
            ![5]  = Mul(data[5], cos_a) - Mul(data[6], sin_a),
            ![6]  = Mul(data[5], sin_a) + Mul(data[6], cos_a),
            ![9]  = Mul(data[9], cos_a) - Mul(data[10], sin_a),
            ![10] = Mul(data[9], sin_a) + Mul(data[10], cos_a),
            ![13] = Mul(data[13], cos_a) - Mul(data[14], sin_a),
            ![14] = Mul(data[13], sin_a) + Mul(data[14], cos_a) ]

\* camera.rs:41-67: data on the right of an EXCEPT is old_matrix
apply_pitch(data, angle) ==
    LET cos_a == Cos(angle)
        sin_a == Sin(angle)
    IN  [ data EXCEPT
            ![1]  = Mul(data[1], cos_a) - Mul(data[2], sin_a),
            ![2]  = Mul(data[1], sin_a) + Mul(data[2], cos_a),
            ![5]  = Mul(data[5], cos_a) - Mul(data[6], sin_a),
            ![6]  = Mul(data[5], sin_a) + Mul(data[6], cos_a),
            ![9]  = Mul(data[9], cos_a) - Mul(data[10], sin_a),
            ![10] = Mul(data[9], sin_a) + Mul(data[10], cos_a) ]

\* the mutant of apply_yaw: the sine has one sign in both columns
apply_yaw_same_sign(data, angle) ==
    LET cos_a == Cos(angle)
        sin_a == Sin(angle)
    IN  [ data EXCEPT
            ![0]  = Mul(data[0], cos_a) + Mul(data[2], sin_a),
            ![2]  = Mul(data[0], sin_a) + Mul(data[2], cos_a),
            ![4]  = Mul(data[4], cos_a) + Mul(data[6], sin_a),
            ![6]  = Mul(data[4], sin_a) + Mul(data[6], cos_a),
            ![8]  = Mul(data[8], cos_a) + Mul(data[10], sin_a),
            ![10] = Mul(data[8], sin_a) + Mul(data[10], cos_a) ]

\* camera.rs:69-95
apply_yaw(data, angle) ==
    LET cos_a == Cos(angle)
        sin_a == Sin(angle)
    IN  [ data EXCEPT
            ![0]  = Mul(data[0], cos_a) + Mul(data[2], sin_a),
            ![2]  = Mul(-data[0], sin_a) + Mul(data[2], cos_a),
            ![4]  = Mul(data[4], cos_a) + Mul(data[6], sin_a),
            ![6]  = Mul(-data[4], sin_a) + Mul(data[6], cos_a),
            ![8]  = Mul(data[8], cos_a) + Mul(data[10], sin_a),
            ![10] = Mul(-data[8], sin_a) + Mul(data[10], cos_a) ]

\* camera.rs:116-128: the self of the call is replaced by the product
multiply_matrix(a, b) ==
    [ n \in 0..15 |->
        Mul(a[(n \div 4) * 4], b[n % 4])
      + Mul(a[(n \div 4) * 4 + 1], b[4 + (n % 4)])
      + Mul(a[(n \div 4) * 4 + 2], b[8 + (n % 4)])
      + Mul(a[(n \div 4) * 4 + 3], b[12 + (n % 4)]) ]

\* the mutant of get_forward: the third row as it is
get_forward_raw(data) == CameraPosition(data[8], data[9], data[10])

\* camera.rs:130-137
get_forward(data) == CameraPosition(-data[8], -data[9], -data[10])

\* the mutant of apply_translation: dz moves along get_forward, the negated
\* third row
apply_translation_negated(data, dx, dy, dz) ==
    [ data EXCEPT
        ![12] = @ + Mul(dx, data[0]) + Mul(dy, data[4]) - Mul(dz, data[8]),
        ![13] = @ + Mul(dx, data[1]) + Mul(dy, data[5]) - Mul(dz, data[9]),
        ![14] = @ + Mul(dx, data[2]) + Mul(dy, data[6]) - Mul(dz, data[10]) ]

\* camera.rs:97-114
apply_translation(data, dx, dy, dz) ==
    [ data EXCEPT
        ![12] = @ + Mul(dx, data[0]) + Mul(dy, data[4]) + Mul(dz, data[8]),
        ![13] = @ + Mul(dx, data[1]) + Mul(dy, data[5]) + Mul(dz, data[9]),
        ![14] = @ + Mul(dx, data[2]) + Mul(dy, data[6]) + Mul(dz, data[10]) ]

\* the mutant of reconstruct_camera_matrix: the third row is forward itself
reconstruct_camera_matrix_raw(yaw, pitch, data) ==
    [ data EXCEPT ![0] = -Sin(yaw), ![1] = 0, ![2] = Cos(yaw),
                  ![4] = Mul(-Sin(pitch), Cos(yaw)), ![5] = Cos(pitch),
                  ![6] = Mul(-Sin(pitch), Sin(yaw)),
                  ![8] = Mul(Cos(pitch), Cos(yaw)), ![9] = Sin(pitch),
                  ![10] = Mul(Cos(pitch), Sin(yaw)) ]

\* controller.rs:56-93
reconstruct_camera_matrix(yaw, pitch, data) ==
    LET cos_yaw   == Cos(yaw)
        sin_yaw   == Sin(yaw)
        cos_pitch == Cos(pitch)
        sin_pitch == Sin(pitch)
        forward_x == Mul(cos_pitch, cos_yaw)
        forward_y == sin_pitch
        forward_z == Mul(cos_pitch, sin_yaw)
        right_x   == -sin_yaw
        right_y   == 0
        right_z   == cos_yaw
        up_x      == Mul(-sin_pitch, cos_yaw)
        up_y      == cos_pitch
        up_z      == Mul(-sin_pitch, sin_yaw)
    IN  [ data EXCEPT ![0] = right_x, ![1] = right_y, ![2] = right_z,
                      ![4] = up_x, ![5] = up_y, ![6] = up_z,
                      ![8] = -forward_x, ![9] = -forward_y, ![10] = -forward_z ]

(***************************************************************************)
(* Camera access (process.rs:345-449).  ptrs is the target's pointer data  *)
(* and cam its f32 data, both by address.  An operation issues its OS      *)
(* calls one after the other and returns at the first that fails; fail_at  *)
(* is the number of the call the OS fails (0: none), counted from 1 over   *)
(* the calls of the operation.                                             *)
(***************************************************************************)
\* process.rs:348, 376: 0x34C, 0x8, 0x4, 0x8C, 0x0
camera_offsets == << 844, 8, 4, 140, 0 >>
\* process.rs:376: 0x2F4, the start of the 4x4 matrix
matrix_offset == 756
\* process.rs:352, 358, 364: 0x324, 0x328, 0x32C
x_offset == 804
y_offset == 808
z_offset == 812
\* process.rs:382, 423: the matrix has 16 elements
MATRIX_LEN == 16

\* the element of a set of one element; a value that is used more than once
\* is bound as the element of such a set, and so computed once
Only(S) == CHOOSE v \in S : TRUE

\* the outcomes of the n reads of a chain whose first call is call k0 + 1
ChainOuts(k0, fail_at, n) ==
    [ i \in 1..n |-> IF k0 + i = fail_at THEN [ok |-> FALSE, n |-> 0]
                                         ELSE Complete(SIZE_OF_T) ]

\* the reads a call of resolve_pointer_chain issued, as OS calls
ChainLog(ch) ==
    [ i \in 1..Len(ch.log) |->
        Call("ReadProcessMemory", ch.log[i].address, SIZE_OF_T,
             IF ch.log[i].ok THEN 1 ELSE 0) ]

\* process.rs:50-70 with T = f32: Err when ReadProcessMemory returns 0 (as
\* it does at an address the target has not mapped)
read_memory_f32(cam, address, os_ok) ==
    IF address \notin DOMAIN cam \/ ~os_ok
    THEN [ ok |-> FALSE, value |-> 0 ]
    ELSE [ ok |-> TRUE, value |-> cam[address] ]

\* process.rs:72-90 with T = f32
write_memory_f32(cam, address, value, os_ok) ==
    IF address \notin DOMAIN cam \/ ~os_ok
    THEN [ ok |-> FALSE, cam |-> cam ]
    ELSE [ ok |-> TRUE, cam |-> [cam EXCEPT ![address] = value] ]

\* the chain of a camera field: the shared offsets and the field's own
field_chain(ptrs, base_address, final_offset, k0, fail_at) ==
    resolve_pointer_chain(ptrs, Wide(base_address + base_offset),
                          Append(camera_offsets, final_offset),
                          ChainOuts(k0, fail_at, Len(camera_offsets) + 1))

\* process.rs:351-354 (and 357-360, 363-366): resolve the field's address,
\* then read the f32 there
read_field(ptrs, cam, base_address, final_offset, k0, fail_at) ==
    Only({
        IF ~ch.ok
        THEN [ ok |-> FALSE, err |-> ch.err, value |-> 0, addr |-> ch.addr,
               log |-> ChainLog(ch) ]
        ELSE Only({
               [ ok |-> rd.ok,
                 err |-> IF rd.ok THEN "" ELSE "Failed to read process memory",
                 value |-> rd.value, addr |-> ch.addr,
                 log |-> Append(ChainLog(ch),
                                Call("ReadProcessMemory", ch.addr, SIZE_OF_T,
                                     IF rd.ok THEN 1 ELSE 0)) ]
               : rd \in { read_memory_f32(cam, ch.addr,
                                          k0 + Len(ch.log) + 1 # fail_at) } })
        : ch \in { field_chain(ptrs, base_address, final_offset, k0, fail_at) } })

\* process.rs:395-398 (and 401-404, 407-410): resolve the field's address,
\* then write the f32 there
write_field(ptrs, cam, base_address, final_offset, value, k0, fail_at) ==
    Only({
        IF ~ch.ok
        THEN [ ok |-> FALSE, err |-> ch.err, cam |-> cam, addr |-> ch.addr,
               log |-> ChainLog(ch) ]
        ELSE Only({
               [ ok |-> wr.ok,
                 err |-> IF wr.ok THEN "" ELSE "Failed to write process memory",
                 cam |-> wr.cam, addr |-> ch.addr,
                 log |-> Append(ChainLog(ch),
                                Call("WriteProcessMemory", ch.addr, value,
                                     IF wr.ok THEN 1 ELSE 0)) ]
               : wr \in { write_memory_f32(cam, ch.addr, value,
                                           k0 + Len(ch.log) + 1 # fail_at) } })
        : ch \in { field_chain(ptrs, base_address, final_offset, k0, fail_at) } })

\* the mutant of get_camera_position: the fields are taken at the start of
\* the matrix
get_camera_position_first_row(ptrs, cam, base_address, fail_at) ==
    Only({ Only({ Only({
        [ ok  |-> x.ok /\ y.ok /\ z.ok, err |-> x.err,
          pos |-> CameraPosition(x.value, y.value, z.value),
          log |-> x.log \o y.log \o z.log ]
        : z \in { read_field(ptrs, cam, base_address,
                             matrix_offset + 2 * SIZE_OF_T, 0, 0) } })
        : y \in { read_field(ptrs, cam, base_address,
                             matrix_offset + SIZE_OF_T, 0, 0) } })
        : x \in { read_field(ptrs, cam, base_address, matrix_offset, 0, 0) } })

\* process.rs:345-369
get_camera_position(ptrs, cam, base_address, fail_at) ==
    LET none == CameraPosition(0, 0, 0)
    IN  Only({
        IF ~x.ok
        THEN [ ok |-> FALSE, err |-> x.err, pos |-> none, log |-> x.log ]
        ELSE Only({
        IF ~y.ok
        THEN [ ok |-> FALSE, err |-> y.err, pos |-> none, log |-> x.log \o y.log ]
        ELSE Only({
             [ ok |-> z.ok, err |-> z.err,
               pos |-> IF z.ok THEN CameraPosition(x.value, y.value, z.value)
                               ELSE none,
               log |-> x.log \o y.log \o z.log ]
             : z \in { read_field(ptrs, cam, base_address, z_offset,
                                  Len(x.log) + Len(y.log), fail_at) } })
        : y \in { read_field(ptrs, cam, base_address, y_offset, Len(x.log),
                             fail_at) } })
        : x \in { read_field(ptrs, cam, base_address, x_offset, 0, fail_at) } })

\* process.rs:389-413
set_camera_position(ptrs, cam, base_address, position, fail_at) ==
    Only({
        IF ~x.ok
        THEN [ ok |-> FALSE, err |-> x.err, cam |-> x.cam, log |-> x.log ]
        ELSE Only({
        IF ~y.ok
        THEN [ ok |-> FALSE, err |-> y.err, cam |-> y.cam, log |-> x.log \o y.log ]
        ELSE Only({
             [ ok |-> z.ok, err |-> z.err, cam |-> z.cam,
               log |-> x.log \o y.log \o z.log ]
             : z \in { write_field(ptrs, y.cam, base_address, z_offset,
                                   position.z, Len(x.log) + Len(y.log),
                                   fail_at) } })
        : y \in { write_field(ptrs, x.cam, base_address, y_offset, position.y,
                              Len(x.log), fail_at) } })
        : x \in { write_field(ptrs, cam, base_address, x_offset, position.x, 0,
                              fail_at) } })

\* process.rs:430-449
get_camera_addresses(ptrs, base_address, fail_at) ==
    Only({
        IF ~x.ok
        THEN [ ok |-> FALSE, err |-> x.err, addrs |-> << >>, log |-> ChainLog(x) ]
        ELSE Only({
        IF ~y.ok
        THEN [ ok |-> FALSE, err |-> y.err, addrs |-> << >>,
               log |-> ChainLog(x) \o ChainLog(y) ]
        ELSE Only({
             [ ok |-> z.ok, err |-> z.err,
               addrs |-> IF z.ok THEN << x.addr, y.addr, z.addr >> ELSE << >>,
               log |-> ChainLog(x) \o ChainLog(y) \o ChainLog(z) ]
             : z \in { field_chain(ptrs, base_address, z_offset,
                                   Len(x.log) + Len(y.log), fail_at) } })
        : y \in { field_chain(ptrs, base_address, y_offset, Len(x.log),
                              fail_at) } })
        : x \in { field_chain(ptrs, base_address, x_offset, 0, fail_at) } })

\* the elements whose transfer fails, given the call number of element 0
FailingElements(cam, matrix_addr, k1, fail_at) ==
    { i \in 0..(MATRIX_LEN - 1) :
        AddOffset(matrix_addr, i * SIZE_OF_T) \notin DOMAIN cam
        \/ k1 + i + 1 = fail_at }

\* how many element transfers are issued: up to and with the first failing
IssuedElements(bad) ==
    IF bad = {} THEN MATRIX_LEN
    ELSE (CHOOSE i \in bad : \A j \in bad : i <= j) + 1

\* process.rs:371-387
get_camera_matrix(ptrs, cam, base_address, fail_at) ==
    LET zero == [ i \in 0..(MATRIX_LEN - 1) |-> 0 ]
    IN  Only({
        IF ~ch.ok
        THEN [ ok |-> FALSE, err |-> ch.err, data |-> zero, addr |-> ch.addr,
               log |-> ChainLog(ch) ]
        ELSE Only({
             [ ok   |-> bad = {},
               err  |-> IF bad = {} THEN "" ELSE "Failed to read process memory",
               data |-> IF bad = {}
                        THEN [ i \in 0..(MATRIX_LEN - 1) |->
                                 cam[AddOffset(ch.addr, i * SIZE_OF_T)] ]
                        ELSE zero,
               addr |-> ch.addr,
               log  |-> ChainLog(ch) \o
                        [ j \in 1..IssuedElements(bad) |->
                            Call("ReadProcessMemory",
                                 AddOffset(ch.addr, (j - 1) * SIZE_OF_T), SIZE_OF_T,
                                 IF (j - 1) \in bad THEN 0 ELSE 1) ] ]
             : bad \in { FailingElements(cam, ch.addr, Len(ch.log), fail_at) } })
        : ch \in { field_chain(ptrs, base_address, matrix_offset, 0, fail_at) } })

\* the element index of an address of the matrix
ElementAt(matrix_addr, a) ==
    CHOOSE i \in 0..(MATRIX_LEN - 1) : AddOffset(matrix_addr, i * SIZE_OF_T) = a

\* the mutant of set_camera_matrix: a write-back that fails leaves the
\* target as it was
set_camera_matrix_atomic(ptrs, cam, base_address, data, fail_at) ==
    Only({
        IF ~ch.ok
        THEN [ ok |-> FALSE, err |-> ch.err, cam |-> cam, addr |-> ch.addr,
               log |-> ChainLog(ch) ]
        ELSE Only({ Only({
             [ ok   |-> bad = {},
               err  |-> IF bad = {} THEN "" ELSE "Failed to write process memory",
               cam  |-> IF bad # {} THEN cam
                        ELSE [ a \in DOMAIN cam |->
                                 IF a \in { AddOffset(ch.addr, i * SIZE_OF_T) :
                                              i \in 0..(MATRIX_LEN - 1) }
                                 THEN data[ElementAt(ch.addr, a)]
                                 ELSE cam[a] ],
               addr |-> ch.addr,
               log  |-> ChainLog(ch) \o
                        [ j \in 1..issued |->
                            Call("WriteProcessMemory",
                                 AddOffset(ch.addr, (j - 1) * SIZE_OF_T),
                                 data[j - 1],
                                 IF (j - 1) \in bad THEN 0 ELSE 1) ] ]
             : issued \in { IssuedElements(bad) } })
             : bad \in { FailingElements(cam, ch.addr, Len(ch.log), fail_at) } })
        : ch \in { field_chain(ptrs, base_address, matrix_offset, 0, fail_at) } })

\* process.rs:415-428: the elements are written in order, one call each,
\* up to the first failing one
set_camera_matrix(ptrs, cam, base_address, data, fail_at) ==
    Only({
        IF ~ch.ok
        THEN [ ok |-> FALSE, err |-> ch.err, cam |-> cam, addr |-> ch.addr,
               log |-> ChainLog(ch) ]
        ELSE Only({ Only({
             [ ok   |-> bad = {},
               err  |-> IF bad = {} THEN "" ELSE "Failed to write process memory",
               cam  |-> [ a \in DOMAIN cam |->
                            IF a \in { AddOffset(ch.addr, i * SIZE_OF_T) :
                                         i \in { j \in 0..(issued - 1) :
                                                   j \notin bad } }
                            THEN data[ElementAt(ch.addr, a)]
                            ELSE cam[a] ],
               addr |-> ch.addr,
               log  |-> ChainLog(ch) \o
                        [ j \in 1..issued |->
                            Call("WriteProcessMemory",
                                 AddOffset(ch.addr, (j - 1) * SIZE_OF_T),
                                 data[j - 1],
                                 IF (j - 1) \in bad THEN 0 ELSE 1) ] ]
             : issued \in { IssuedElements(bad) } })
             : bad \in { FailingElements(cam, ch.addr, Len(ch.log), fail_at) } })
        : ch \in { field_chain(ptrs, base_address, matrix_offset, 0, fail_at) } })

(***************************************************************************)
(* Input (input.rs).                                                       *)
(***************************************************************************)
\* input.rs:106-116
MovementInput_new ==
    [ forward |-> FALSE, backward |-> FALSE, left |-> FALSE, right |-> FALSE,
      up |-> FALSE, down |-> FALSE ]

\* the mutant of has_movement: keys that cancel each other do not count
has_movement_net(mi) ==
    \/ mi.forward # mi.backward
    \/ mi.left # mi.right
    \/ mi.up # mi.down

\* input.rs:128-130
has_movement(mi) ==
    mi.forward \/ mi.backward \/ mi.left \/ mi.right \/ mi.up \/ mi.down

\* the mutant of get_movement_vector: the forward key counts against z
get_movement_vector_reversed(mi, speed) ==
    << (IF mi.left THEN speed ELSE 0) - (IF mi.right THEN speed ELSE 0),
       (IF mi.up THEN speed ELSE 0) - (IF mi.down THEN speed ELSE 0),
       (IF mi.backward THEN speed ELSE 0) - (IF mi.forward THEN speed ELSE 0) >>

\* input.rs:132-157
get_movement_vector(mi, speed) ==
    << (IF mi.left THEN speed ELSE 0) - (IF mi.right THEN speed ELSE 0),
       (IF mi.up THEN speed ELSE 0) - (IF mi.down THEN speed ELSE 0),
       (IF mi.forward THEN speed ELSE 0) - (IF mi.backward THEN speed ELSE 0) >>

\* input.rs:21-32: Page Up wins over Page Down
get_speed_delta(page_up, page_down) ==
    IF page_up THEN 1 ELSE IF page_down THEN -1 ELSE 0

\* input.rs:42-52
MouseHandler_new(sensitivity) == [ sensitivity |-> sensitivity, enabled |-> FALSE ]

\* input.rs:70-93: cursor is the cursor's offset from the screen centre in
\* pixels, or None when GetCursorPos fails
get_delta(mouse_handler, cursor) ==
    IF ~mouse_handler.enabled THEN << 0, 0 >>
    ELSE IF cursor = None THEN << 0, 0 >>
    ELSE << cursor[1][1] * mouse_handler.sensitivity,
            cursor[1][2] * mouse_handler.sensitivity >>

\* input.rs:54-60: enable sets the cursor on the screen centre; at is the
\* cursor's offset from the centre in pixels
enable_cursor(at) == << 0, 0 >>

\* input.rs:70-93: where get_delta leaves the cursor.  It is set on the
\* centre when an offset read is of more than one pixel
get_delta_cursor(mouse_handler, at, cursor_read) ==
    IF ~mouse_handler.enabled THEN at
    ELSE IF ~cursor_read THEN at
    ELSE IF Abs(at[1]) > 1 \/ Abs(at[2]) > 1 THEN << 0, 0 >>
    ELSE at

(***************************************************************************)
(* Camera controllers (controller.rs).                                     *)
(***************************************************************************)
\* controller.rs:23-25, 182-184: 0.1, 100.0, 0.5 and 1.0
MIN_SPEED == 100
MAX_SPEED == 100000
SPEED_STEP == 500
BASIC_SPEED_STEP == 1000
\* controller.rs:126: 0.01
DEAD_ZONE == 10
\* controller.rs:128-129: 0.002 radians for a delta of one, that is two
\* millionths of a radian for a thousandth
RADIANS_PER_DELTA == 2
\* controller.rs:132-133: FRAC_PI_2 * 0.99
PITCH_LIMIT == (FRAC_PI_2 * 99) \div 100

\* controller.rs:18-30
CameraController_new(move_speed, mouse_sensitivity) ==
    [ move_speed |-> move_speed,
      mouse_handler |-> MouseHandler_new(mouse_sensitivity),
      last_position |-> None,
      min_speed |-> MIN_SPEED, max_speed |-> MAX_SPEED, speed_step |-> SPEED_STEP,
      yaw |-> 0, pitch |-> 0,
      movement_input |-> MovementInput_new ]

\* controller.rs:178-187; the position-only controller has no mouse handler
\* and no angles: those fields stay as they are here
BasicCameraController_new(move_speed) ==
    [ move_speed |-> move_speed,
      mouse_handler |-> MouseHandler_new(0),
      last_position |-> None,
      min_speed |-> MIN_SPEED, max_speed |-> MAX_SPEED,
      speed_step |-> BASIC_SPEED_STEP,
      yaw |-> 0, pitch |-> 0,
      movement_input |-> MovementInput_new ]

\* controller.rs:32-34, 189-191
increase_speed(c) ==
    [ c EXCEPT !.move_speed = Min(c.move_speed + c.speed_step, c.max_speed) ]

\* controller.rs:36-38, 193-195
decrease_speed(c) ==
    [ c EXCEPT !.move_speed = Max(c.move_speed - c.speed_step, c.min_speed) ]

\* controller.rs:97-102, 203-208
adjust_speed(c, speed_delta) ==
    IF speed_delta > 0 THEN increase_speed(c)
    ELSE IF speed_delta < 0 THEN decrease_speed(c)
    ELSE c

\* controller.rs:44-50
enable_mouse(c) == [ c EXCEPT !.mouse_handler.enabled = TRUE ]
disable_mouse(c) == [ c EXCEPT !.mouse_handler.enabled = FALSE ]

\* the mutant of seed_from: the angles are taken from every transform read
seed_from_always(c, data) ==
    [ c EXCEPT !.last_position = Some(get_position(data)),
               !.yaw = Atan2(get_forward(data).z, get_forward(data).x),
               !.pitch = Asin(-(get_forward(data).y)) ]

\* controller.rs:111-118: the first position read is kept and the angles are
\* taken from the forward vector of the transform read
seed_from(c, data) ==
    IF c.last_position = None
    THEN [ c EXCEPT !.last_position = Some(get_position(data)),
                    !.yaw = Atan2(get_forward(data).z, get_forward(data).x),
                    !.pitch = Asin(-(get_forward(data).y)) ]
    ELSE c

\* the mutant of outside_dead_zone: any delta turns the camera
outside_dead_zone_any(mouse_dx, mouse_dy) == TRUE

\* controller.rs:126
outside_dead_zone(mouse_dx, mouse_dy) ==
    Abs(mouse_dx) > DEAD_ZONE \/ Abs(mouse_dy) > DEAD_ZONE

\* controller.rs:128-133
turn(c, mouse_dx, mouse_dy) ==
    [ c EXCEPT !.yaw = @ + mouse_dx * RADIANS_PER_DELTA,
               !.pitch = Clamp(@ + mouse_dy * RADIANS_PER_DELTA,
                               -PITCH_LIMIT, PITCH_LIMIT) ]

\* the result of a tick
TickResult(ok, moved, err, c, cam, log, read, written) ==
    [ ok |-> ok, moved |-> moved, err |-> err, controller |-> c, cam |-> cam,
      log |-> log, read |-> read, written |-> written ]

\* controller.rs:151-163: the write-back of a tick that moved
write_back(c, ptrs, cam, base_address, data, rd, fail_at) ==
    Only({
        IF wr.ok
        THEN TickResult(TRUE, TRUE, "",
                        [ c EXCEPT !.last_position = Some(get_position(data)) ],
                        wr.cam, rd.log \o wr.log, Some(rd.data), Some(data))
        ELSE TickResult(FALSE, FALSE, "Failed to set camera matrix", c,
                        wr.cam, rd.log \o wr.log, Some(rd.data), Some(data))
        : wr \in { set_camera_matrix(ptrs, cam, base_address, data, fail_at) } })

\* the mutant of steer: the cursor turns the camera whether mouse look is
\* enabled or not
steer_mouse_always(c, data, in) ==
    Only({
        LET turns == outside_dead_zone(delta[1], delta[2])
        IN  Only({
            LET m3 == IF turns
                      THEN reconstruct_camera_matrix(c3.yaw, c3.pitch, data)
                      ELSE data
                v  == get_movement_vector(in.keys, c3.move_speed)
            IN  [ controller |-> [ c3 EXCEPT !.movement_input = in.keys ],
                  moved      |-> turns \/ has_movement(in.keys),
                  data       |-> IF has_movement(in.keys)
                                 THEN apply_translation(m3, v[1], v[2], v[3])
                                 ELSE m3 ]
            : c3 \in { IF turns THEN turn(c, delta[1], delta[2]) ELSE c } })
        : delta \in { get_delta([ c.mouse_handler EXCEPT !.enabled = TRUE ],
                                in.cursor) } })

\* controller.rs:120-149: the mouse and the keys work on the controller c
\* and on the transform read; what comes out is the controller, the
\* transform to write and whether the tick moved
steer(c, data, in) ==
    Only({
        LET turns == c.mouse_handler.enabled
                     /\ outside_dead_zone(delta[1], delta[2])
        IN  Only({
            LET m3 == IF turns
                      THEN reconstruct_camera_matrix(c3.yaw, c3.pitch, data)
                      ELSE data
                v  == get_movement_vector(in.keys, c3.move_speed)
            IN  [ controller |-> [ c3 EXCEPT !.movement_input = in.keys ],
                  moved      |-> turns \/ has_movement(in.keys),
                  data       |-> IF has_movement(in.keys)
                                 THEN apply_translation(m3, v[1], v[2], v[3])
                                 ELSE m3 ]
            : c3 \in { IF turns THEN turn(c, delta[1], delta[2]) ELSE c } })
        : delta \in { get_delta(c.mouse_handler, in.cursor) } })

\* the mutant of update_camera: the mouse and the keys are handled before
\* the transform is read
update_camera_steer_first(c, ptrs, cam, base_address, in, out) ==
    Only({
        IF ~rd.ok
        THEN TickResult(FALSE, FALSE, "Failed to read camera matrix",
                        steer(c1, rd.data, in).controller, cam, rd.log, None, None)
        ELSE Only({
             IF st.moved
             THEN write_back(st.controller, ptrs, cam, base_address, st.data, rd,
                             out.wr)
             ELSE TickResult(TRUE, FALSE, "", st.controller, cam, rd.log,
                             Some(rd.data), None)
             : st \in { steer(seed_from(c1, rd.data), rd.data, in) } })
        : c1 \in { adjust_speed(c, in.speed_delta) },
          rd \in { get_camera_matrix(ptrs, cam, base_address, out.rd) } })

\* controller.rs:95-164.  in: the signals of the tick (speed_delta, the
\* cursor, the movement keys); out.rd and out.wr: the failing call of the
\* read of the transform and of its write-back
update_camera(c, ptrs, cam, base_address, in, out) ==
    Only({
        IF ~rd.ok
        THEN TickResult(FALSE, FALSE, "Failed to read camera matrix", c1, cam,
                        rd.log, None, None)
        ELSE Only({
             IF st.moved
             THEN write_back(st.controller, ptrs, cam, base_address, st.data, rd,
                             out.wr)
             ELSE TickResult(TRUE, FALSE, "", st.controller, cam, rd.log,
                             Some(rd.data), None)
             : st \in { steer(seed_from(c1, rd.data), rd.data, in) } })
        : c1 \in { adjust_speed(c, in.speed_delta) },
          rd \in { get_camera_matrix(ptrs, cam, base_address, out.rd) } })

\* the mutant of basic_new_pos: the movement vector of the matrix controller
basic_new_pos_local(mi, pos, speed) ==
    CameraPosition(pos.x + get_movement_vector(mi, speed)[1],
                   pos.y + get_movement_vector(mi, speed)[2],
                   pos.z + get_movement_vector(mi, speed)[3])

\* controller.rs:226-246: the keys move the position along the world axes
basic_new_pos(mi, pos, speed) ==
    CameraPosition(
        pos.x - (IF mi.left THEN speed ELSE 0) + (IF mi.right THEN speed ELSE 0),
        pos.y + (IF mi.up THEN speed ELSE 0) - (IF mi.down THEN speed ELSE 0),
        pos.z + (IF mi.forward THEN speed ELSE 0)
              - (IF mi.backward THEN speed ELSE 0))

\* controller.rs:248-257: the write-back of a tick with a key down
basic_write_back(c, ptrs, cam, base_address, new_pos, rd, fail_at) ==
    Only({
        IF wr.ok
        THEN TickResult(TRUE, TRUE, "",
                        [ c EXCEPT !.last_position = Some(new_pos) ],
                        wr.cam, rd.log \o wr.log, Some(rd.pos), Some(new_pos))
        ELSE TickResult(FALSE, FALSE, "Failed to set camera position", c,
                        wr.cam, rd.log \o wr.log, Some(rd.pos), Some(new_pos))
        : wr \in { set_camera_position(ptrs, cam, base_address, new_pos,
                                       fail_at) } })

\* controller.rs:217-219: the first position read is kept
basic_seed_from(c, pos) ==
    IF c.last_position = None THEN [ c EXCEPT !.last_position = Some(pos) ] ELSE c

\* controller.rs:201-258
basic_update_camera(c, ptrs, cam, base_address, in, out) ==
    Only({
        IF ~rd.ok
        THEN TickResult(FALSE, FALSE, "Failed to read camera position", c1, cam,
                        rd.log, None, None)
        ELSE Only({
             IF has_movement(c3.movement_input)
             THEN basic_write_back(c3, ptrs, cam, base_address,
                                   basic_new_pos(c3.movement_input, rd.pos,
                                                 c3.move_speed),
                                   rd, out.wr)
             ELSE TickResult(TRUE, FALSE, "", c3, cam, rd.log, Some(rd.pos), None)
             : c3 \in { [ basic_seed_from(c1, rd.pos)
                            EXCEPT !.movement_input = in.keys ] } })
        : c1 \in { adjust_speed(c, in.speed_delta) },
          rd \in { get_camera_position(ptrs, cam, base_address, out.rd) } })

(***************************************************************************)
(* The state.                                                              *)
(***************************************************************************)
VARIABLES
    mem,                    \* the target's code bytes, by address
    prot,                   \* the target's page protections, by page
    camera_patch,           \* main.rs:111 / 250, Option<CodePatch>
    patch_toggle_pressed,   \* main.rs:110 / 249
    patch_poll,             \* main.rs:131-135 / 254-258, and history: whether
                            \* this iteration of the loop read the patch key as
                            \* down and whether an attempt on the patch followed
    patch_addr,             \* main.rs:147 / 163, the address discovery gave
    pc,                     \* where main is
    ops,                    \* history: how many patch operations were issued
    last,                   \* history: the last patch operation issued
    first_site,             \* history: the site of the first patch_with_nops call
    target_ptrs,            \* the target's data: 32-bit values, by address
    resolved,               \* history: the last resolve_pointer_chain call
    access,                 \* history: the last read_memory / write_memory call
    process_handle,         \* main.rs:23, 37: the process handles opened and closed
    mode,                   \* which control loop main is in: matrix or basic
    controller,             \* main.rs:107 / 247, once constructed
    mouse_toggle_pressed,   \* main.rs:109
    camera_mem,             \* the target's data: f32 values, by address
    startup,                \* history: the results of the access tests of main
    tick,                   \* history: the last controller tick
    moves,                  \* history: how many ticks had a signal or a failure
    camera_matrix,          \* a CameraMatrix and the calls of its methods
    cursor                  \* the mouse cursor and the samples taken of it

vars == << mem, prot, camera_patch, patch_toggle_pressed, patch_poll, patch_addr, pc, ops,
           last, first_site, target_ptrs, resolved, access, process_handle,
           mode, controller, mouse_toggle_pressed, camera_mem, startup, tick,
           moves, camera_matrix, cursor >>

\* what the patch manager and the run loop work on
patchVars == << mem, prot, camera_patch, patch_toggle_pressed, patch_poll, patch_addr, ops,
               last, first_site >>
\* what the pointer-chain resolver works on
resolveVars == << target_ptrs, resolved >>
\* what the typed accessor works on, besides mem
accessVars == << access >>
\* what the controllers and the rest of main work on, besides target_ptrs
ctlVars == << process_handle, mode, controller, mouse_toggle_pressed,
              camera_mem, startup, tick, moves, camera_matrix, cursor >>

\* the candidate a byte address belongs to
SiteOf(a) == CHOOSE s \in Sites : a >= s /\ a < s + MaxPatchLen

\* the target before the tool touches it: the instruction with the signature
\* is at one of the candidates or at none of them, the other candidates hold
\* some other instruction; every code page has the same protection
InitTarget ==
    /\ \E sig \in { g \in SUBSET Sites : Cardinality(g) <= 1 } :
          mem = [ a \in ByteAddrs |->
                    IF SiteOf(a) \in sig THEN SigBytes(a - SiteOf(a))
                                         ELSE OtherBytes(a - SiteOf(a)) ]
    /\ \E pr \in { PAGE_EXECUTE_READ, PAGE_EXECUTE } : prot = [ g \in Pages |-> pr ]

NoOperation ==
    [ op |-> "none", when |-> "", address |-> 0, length |-> 0, ok |-> FALSE,
      err |-> "", applied_before |-> FALSE, mem_before |-> << >>,
      prot_before |-> 0, after_apply |-> FALSE, pre_apply |-> << >>,
      made_patch |-> FALSE, log |-> << >> ]

\* the record of a patch_with_nops call that gave r
ApplyRecord(r, address, length) ==
    [ op |-> "apply", when |-> pc, address |-> address, length |-> length,
      ok |-> r.ok, err |-> r.err, applied_before |-> FALSE,
      mem_before |-> BytesAt(mem, address, length),
      prot_before |-> prot[Page(address)],
      after_apply |-> FALSE, pre_apply |-> << >>,
      made_patch |-> (r.patch # None),
      log |-> r.log ]

\* the record of a restore_patch call on patch that gave r
RestoreRecord(r, patch) ==
    [ op |-> "restore", when |-> pc, address |-> patch.address,
      length |-> Len(patch.original_bytes),
      ok |-> r.ok, err |-> r.err, applied_before |-> patch.is_applied,
      mem_before |-> BytesAt(mem, patch.address, Len(patch.original_bytes)),
      prot_before |-> prot[Page(patch.address)],
      after_apply |-> (last.op = "apply" /\ last.ok /\ camera_patch = Some(patch)
                        /\ last.address = patch.address),
      pre_apply |-> IF last.op = "apply" THEN last.mem_before ELSE << >>,
      made_patch |-> FALSE,
      log |-> r.log ]

\* the site of the first patch_with_nops call and the bytes it held before
FirstSite(address, length) ==
    IF first_site = None
    THEN Some([ address |-> address, bytes |-> BytesAt(mem, address, length) ])
    ELSE first_site

(***************************************************************************)
(* The target's camera data: the pointers of the camera chain and the      *)
(* sixteen f32 of the transform at the end of it.                          *)
(***************************************************************************)
\* the pointers the chain goes through, in order: 0x00A00000, 0x00B00000,
\* 0x00C00000, 0x00D00000, 0x00E00000
ChainPointers == << << 160, 0 >>, << 176, 0 >>, << 192, 0 >>, << 208, 0 >>,
                    << 224, 0 >> >>

\* the address the i-th read of the chain is at (process.rs:121-147)
ChainCell(i) ==
    IF i = 1 THEN Wide(base_addr + base_offset)
    ELSE AddOffset(ChainPointers[i - 1], camera_offsets[i - 1])

\* the pointer data of a target whose chain is whole, or holds value at its
\* link broken (0: whole)
CameraChain(broken, value) ==
    [ a \in { ChainCell(i) : i \in 1..Len(ChainPointers) } |->
        LET i == CHOOSE j \in 1..Len(ChainPointers) : ChainCell(j) = a
        IN  IF i = broken THEN value ELSE ChainPointers[i] ]

\* the chain is whole, or the game has put a null pointer at its third link
\* (it is not in a level)
TargetChains == { CameraChain(0, << 0, 0 >>), CameraChain(3, << 0, 0 >>) }

\* where the transform is
MatrixAddr == AddOffset(ChainPointers[Len(ChainPointers)], matrix_offset)

\* a transform with the rows right, up and back (the negated forward), the
\* position pos and the homogeneous column 0, 0, 0, 1
Transform(right, up, back, pos) ==
    [ i \in 0..(MATRIX_LEN - 1) |->
        IF i \in 0..2 THEN right[i + 1]
        ELSE IF i \in 4..6 THEN up[i - 3]
        ELSE IF i \in 8..10 THEN back[i - 7]
        ELSE IF i \in 12..14 THEN pos[i - 11]
        ELSE IF i = 15 THEN ONE ELSE 0 ]

\* where the camera is at the start: (10.0, 2.0, -3.0)
StartPosition == << 10 * ONE, 2 * ONE, -3 * ONE >>

\* the transforms the game may hold at the start: looking along +x (what
\* yaw 0, pitch 0 reconstructs), looking straight down, and the identity
LevelTransform ==
    Transform(<< 0, 0, ONE >>, << 0, ONE, 0 >>, << -ONE, 0, 0 >>, StartPosition)

StartTransforms ==
    { LevelTransform,
      Transform(<< 0, 0, ONE >>, << ONE, 0, 0 >>, << 0, ONE, 0 >>, StartPosition),
      Transform(<< ONE, 0, 0 >>, << 0, ONE, 0 >>, << 0, 0, ONE >>, StartPosition) }

\* the f32 data of a target that holds the transform data
CameraData(data) ==
    [ a \in { AddOffset(MatrixAddr, i * SIZE_OF_T) : i \in 0..(MATRIX_LEN - 1) } |->
        data[ElementAt(MatrixAddr, a)] ]

\* the transform the target holds
TargetTransform(cam) ==
    [ i \in 0..(MATRIX_LEN - 1) |-> cam[AddOffset(MatrixAddr, i * SIZE_OF_T)] ]

(***************************************************************************)
(* State of main besides the patch.                                        *)
(***************************************************************************)
\* no process handle was opened yet
NoHandle == [ open |-> 0, opened |-> 0, closed |-> 0 ]

\* the access tests of main have not run
NoStartup == [ position |-> "untested", matrix |-> "untested" ]

\* the signals of a tick with nothing pressed and the cursor at the centre
QuietInput ==
    [ speed_delta |-> 0, cursor |-> Some(<< 0, 0 >>), keys |-> MovementInput_new ]

\* no tick yet
NoTick ==
    [ called |-> FALSE, kind |-> "none", in |-> QuietInput, before |-> None,
      cam_before |-> << >>, ok |-> FALSE, moved |-> FALSE, err |-> "",
      log |-> << >>, read |-> None, written |-> None, after_fault |-> FALSE,
      display |-> "none" ]

\* the record of a tick of the kind controller c with the signals in that
\* gave r; display: what became of the read main makes to print the position
TickRecord(kind, c, in, r, display) ==
    [ called |-> TRUE, kind |-> kind, in |-> in, before |-> Some(c),
      cam_before |-> camera_mem, ok |-> r.ok, moved |-> r.moved, err |-> r.err,
      log |-> r.log, read |-> r.read, written |-> r.written,
      after_fault |-> (tick.called /\ (~tick.ok \/ tick.after_fault)),
      display |-> display ]

\* the patch key was not read in this iteration
NoPoll == [ down |-> FALSE, attempted |-> FALSE ]

\* no CameraMatrix was made
NoMatrix == [ data |-> << >>, calls |-> << >> ]

\* the cursor is not looked at
NoCursor == [ at |-> << 0, 0 >>, moved |-> << 0, 0 >>, samples |-> << >> ]

\* main has not started: no handle, no controller
ControlIdle ==
    /\ process_handle = NoHandle
    /\ mode = "none"
    /\ controller = None
    /\ mouse_toggle_pressed = FALSE
    /\ camera_mem = << >>
    /\ startup = NoStartup
    /\ tick = NoTick
    /\ moves = 0
    /\ camera_matrix = NoMatrix
    /\ cursor = NoCursor

(***************************************************************************)
(* main (main.rs:11-351): attach, the access tests that choose the control *)
(* loop, and the loop (main.rs:113-212 with the matrix controller,         *)
(* main.rs:252-335 with the position-only one; the patch toggle and the    *)
(* exit are the same code in both).  One iteration is the mouse toggle     *)
(* (matrix loop only), the patch toggle and then the controller tick.      *)
(***************************************************************************)
Init ==
    /\ InitTarget
    /\ camera_patch = None
    /\ patch_toggle_pressed = FALSE
    /\ patch_poll = NoPoll
    /\ patch_addr = 0
    /\ pc = "attach"
    /\ ops = 0
    /\ last = NoOperation
    /\ first_site = None
    /\ target_ptrs \in TargetChains
    /\ resolved = NotResolved
    /\ access = NoAccess
    /\ process_handle = NoHandle
    /\ mode = "none"
    /\ controller = None
    /\ mouse_toggle_pressed = FALSE
    /\ camera_mem = CameraData(LevelTransform)
    /\ startup = NoStartup
    /\ tick = NoTick
    /\ moves = 0
    /\ camera_matrix = NoMatrix
    /\ cursor = NoCursor

\* main.rs:22-35: the names are tried in order, up to the first that
\* ProcessHandle::new opens (opens[i]: whether it opens the i-th)
attach(opens) ==
    IF \E i \in 1..Len(opens) : opens[i]
    THEN [ open |-> 1, opened |-> 1, closed |-> 0 ]
    ELSE NoHandle

\* main.rs:22: "skate3.exe", "Skate3.exe", "SKATE3.EXE"
PROCESS_NAMES == 3

\* main.rs:22-52: without a handle main asks for Enter and returns
Attach ==
    /\ pc = "attach"
    /\ \E opens \in [ 1..PROCESS_NAMES -> BOOLEAN ] :
          /\ process_handle' = attach(opens)
          /\ pc' = IF attach(opens).open > 0 THEN "base" ELSE "exited"
    /\ UNCHANGED << camera_matrix, cursor >>
    /\ UNCHANGED << mode, controller, mouse_toggle_pressed, camera_mem, startup,
                    tick, moves >>
    /\ UNCHANGED patchVars
    /\ UNCHANGED resolveVars
    /\ UNCHANGED accessVars

\* main.rs:57-58, 347-349: the base address, or the end of main
GetBaseAddress ==
    /\ pc = "base"
    /\ \E enum_ok \in BOOLEAN :
          pc' = IF enum_ok THEN "test_position" ELSE "exited"
    /\ UNCHANGED ctlVars
    /\ UNCHANGED patchVars
    /\ UNCHANGED resolveVars
    /\ UNCHANGED accessVars

\* the calls of an access test or a tick that the OS may fail (0: none):
\* a pointer read of the chain, the first and a later transfer of the data
FailPoints == { 0, 2, 6, 10 }

\* main.rs:63-64, 339-342: the position test; without it no loop runs
TestPosition ==
    /\ pc = "test_position"
    /\ \E fail_at \in FailPoints :
       \E r \in { get_camera_position(target_ptrs, camera_mem, base_addr, fail_at) } :
          /\ startup' = [ startup EXCEPT
                            !.position = IF r.ok THEN "ok" ELSE "failed" ]
          /\ pc' = IF r.ok THEN "test_matrix" ELSE "exited"
    /\ UNCHANGED << camera_matrix, cursor >>
    /\ UNCHANGED << process_handle, mode, controller, mouse_toggle_pressed,
                    camera_mem, tick, moves >>
    /\ UNCHANGED patchVars
    /\ UNCHANGED resolveVars
    /\ UNCHANGED accessVars

\* the mutant of select_mode: the matrix loop whatever the test gave
select_mode_matrix(matrix_ok) == "matrix"

\* main.rs:72-73, 214-219: the matrix test chooses the loop
select_mode(matrix_ok) == IF matrix_ok THEN "matrix" ELSE "basic"

\* main.rs:107, 247: the controller of a loop
new_controller(m) ==
    IF m = "matrix" THEN CameraController_new(5 * ONE, ONE \div 2)
                    ELSE BasicCameraController_new(10 * ONE)

\* where an iteration of the loop starts: main.rs:115 / 254
LoopTop(m) == IF m = "matrix" THEN "mouse_toggle" ELSE "patch_toggle"

\* main.rs:72-111, 214-250: the matrix test; in both branches the
\* addresses are resolved once more just to print them
TestMatrix ==
    /\ pc = "test_matrix"
    /\ \E fail_at \in FailPoints :
       \E r \in { get_camera_matrix(target_ptrs, camera_mem, base_addr, fail_at) } :
          /\ startup' = [ startup EXCEPT
                            !.matrix = IF r.ok THEN "ok" ELSE "failed" ]
          /\ mode' = select_mode(r.ok)
          /\ controller' = Some(new_controller(select_mode(r.ok)))
          /\ pc' = LoopTop(select_mode(r.ok))
    /\ \E fail_at \in FailPoints :
          get_camera_addresses(target_ptrs, base_addr, fail_at).ok \in BOOLEAN
    /\ UNCHANGED << camera_matrix, cursor >>
    /\ UNCHANGED << process_handle, mouse_toggle_pressed, camera_mem, tick, moves >>
    /\ UNCHANGED patchVars
    /\ UNCHANGED resolveVars
    /\ UNCHANGED accessVars

\* main.rs:126-128: the M key is up
MouseKeyUp ==
    /\ pc = "mouse_toggle"
    /\ \E m_pressed \in BOOLEAN : ~m_pressed
    /\ mouse_toggle_pressed' = FALSE
    /\ pc' = "patch_toggle"
    /\ UNCHANGED << camera_matrix, cursor >>
    /\ UNCHANGED << process_handle, mode, controller, camera_mem, startup, tick,
                    moves >>
    /\ UNCHANGED patchVars
    /\ UNCHANGED resolveVars
    /\ UNCHANGED accessVars

\* main.rs:115-116: the M key is down and was down already
MouseKeyHeld ==
    /\ pc = "mouse_toggle"
    /\ \E m_pressed \in BOOLEAN : m_pressed
    /\ mouse_toggle_pressed
    /\ pc' = "patch_toggle"
    /\ UNCHANGED ctlVars
    /\ UNCHANGED patchVars
    /\ UNCHANGED resolveVars
    /\ UNCHANGED accessVars

\* main.rs:115-125: the M key went down: mouse look is switched
MouseToggle ==
    /\ pc = "mouse_toggle"
    /\ \E m_pressed \in BOOLEAN : m_pressed
    /\ ~mouse_toggle_pressed
    /\ ops + moves < MaxOps
    /\ \E c \in { controller[i] : i \in 1..Len(controller) } :
          controller' = Some(IF c.mouse_handler.enabled THEN disable_mouse(c)
                                                       ELSE enable_mouse(c))
    /\ mouse_toggle_pressed' = TRUE
    /\ moves' = moves + 1
    /\ pc' = "patch_toggle"
    /\ UNCHANGED << camera_matrix, cursor >>
    /\ UNCHANGED << process_handle, mode, camera_mem, startup, tick >>
    /\ UNCHANGED patchVars
    /\ UNCHANGED resolveVars
    /\ UNCHANGED accessVars

\* main.rs:131-135 / 254-258: the two bits of GetAsyncKeyState(VK_P)
PatchKeyDown(p_pressed, p_just_pressed) == p_pressed \/ p_just_pressed

\* main.rs:131-135: what this iteration made of the two bits of
\* GetAsyncKeyState(VK_P); attempted says that patch_with_nops or
\* restore_patch followed
Poll(p_pressed, p_just_pressed, attempted) ==
    [ down |-> PatchKeyDown(p_pressed, p_just_pressed), attempted |-> attempted ]

\* main.rs:178-180 / 302-304: the key is up
PatchKeyUp ==
    /\ pc = "patch_toggle"
    /\ \E p_pressed, p_just_pressed \in BOOLEAN :
          /\ ~PatchKeyDown(p_pressed, p_just_pressed)
          /\ patch_poll' = Poll(p_pressed, p_just_pressed, FALSE)
    /\ patch_toggle_pressed' = FALSE
    /\ pc' = "update"
    /\ UNCHANGED << mem, prot, camera_patch, patch_addr, ops, last, first_site >>
    /\ UNCHANGED resolveVars
    /\ UNCHANGED accessVars
    /\ UNCHANGED ctlVars

\* the mutant of PatchKeyHeld: the flag is cleared while the key is down
PatchKeyHeld_rearm ==
    /\ pc = "patch_toggle"
    /\ \E p_pressed, p_just_pressed \in BOOLEAN :
          /\ PatchKeyDown(p_pressed, p_just_pressed)
          /\ patch_poll' = Poll(p_pressed, p_just_pressed, FALSE)
    /\ patch_toggle_pressed
    /\ patch_toggle_pressed' = FALSE
    /\ pc' = "update"
    /\ UNCHANGED << mem, prot, camera_patch, patch_addr, ops, last, first_site >>
    /\ UNCHANGED resolveVars
    /\ UNCHANGED accessVars
    /\ UNCHANGED ctlVars

\* main.rs:135-136 / 258-259: the key is down and was down already
PatchKeyHeld ==
    /\ pc = "patch_toggle"
    /\ \E p_pressed, p_just_pressed \in BOOLEAN :
          /\ PatchKeyDown(p_pressed, p_just_pressed)
          /\ patch_poll' = Poll(p_pressed, p_just_pressed, FALSE)
    /\ patch_toggle_pressed
    /\ pc' = "update"
    /\ UNCHANGED << mem, prot, camera_patch, patch_toggle_pressed, patch_addr,
                    ops, last, first_site >>
    /\ UNCHANGED resolveVars
    /\ UNCHANGED accessVars
    /\ UNCHANGED ctlVars

\* main.rs:138-143 / 261-266: a patch is held and applied: restore it
PatchToggleRestore ==
    /\ pc = "patch_toggle"
    /\ ops + moves < MaxOps
    /\ \E p_pressed, p_just_pressed \in BOOLEAN :
          /\ PatchKeyDown(p_pressed, p_just_pressed)
          /\ patch_poll' = Poll(p_pressed, p_just_pressed, TRUE)
    /\ ~patch_toggle_pressed
    /\ \E patch \in { camera_patch[i] : i \in 1..Len(camera_patch) } :
          patch.is_applied
    /\ \E patch \in { camera_patch[i] : i \in 1..Len(camera_patch) } :
       \E o \in RestoreOutcomes(Len(patch.original_bytes)) :
          \E r \in { restore_patch(mem, prot, patch, o) } :
              /\ mem' = r.mem
              /\ prot' = r.prot
              /\ camera_patch' = r.patch
              /\ last' = RestoreRecord(r, patch)
    /\ patch_toggle_pressed' = TRUE
    /\ ops' = ops + 1
    /\ pc' = "update"
    /\ UNCHANGED << patch_addr, first_site >>
    /\ UNCHANGED resolveVars
    /\ UNCHANGED accessVars
    /\ UNCHANGED ctlVars

\* main.rs:144-146, 160-162 / 267-269, 283-285: no patch is held, or the held
\* one is not applied: find the address (again)
PatchToggleDiscover ==
    /\ pc = "patch_toggle"
    /\ ops + moves < MaxOps
    /\ \E p_pressed, p_just_pressed \in BOOLEAN :
          /\ PatchKeyDown(p_pressed, p_just_pressed)
          /\ patch_poll' = Poll(p_pressed, p_just_pressed, TRUE)
    /\ ~patch_toggle_pressed
    /\ \A patch \in { camera_patch[i] : i \in 1..Len(camera_patch) } :
          ~patch.is_applied
    /\ \E outs \in ProbeOutcomes :
          patch_addr' = get_camera_write_patch_address(mem, base_addr, outs).addr
    /\ pc' = "patch_apply"
    /\ UNCHANGED << mem, prot, camera_patch, patch_toggle_pressed, ops, last,
                    first_site >>
    /\ UNCHANGED resolveVars
    /\ UNCHANGED accessVars
    /\ UNCHANGED ctlVars

\* main.rs:148-154, 164-170, 176 / 271-277, 287-294, 300: apply at the address
\* found; the held patch is set or replaced on success only
PatchToggleApply ==
    /\ pc = "patch_apply"
    /\ \E o \in PatchOutcomes(PATCH_LENGTH) :
          \E r \in { patch_with_nops(mem, prot, patch_addr, PATCH_LENGTH, o) } :
              /\ mem' = r.mem
              /\ prot' = r.prot
              /\ camera_patch' = IF r.ok THEN r.patch ELSE camera_patch
              /\ last' = ApplyRecord(r, patch_addr, PATCH_LENGTH)
    /\ first_site' = FirstSite(patch_addr, PATCH_LENGTH)
    /\ patch_toggle_pressed' = TRUE
    /\ ops' = ops + 1
    /\ pc' = "update"
    /\ UNCHANGED << patch_addr, patch_poll >>
    /\ UNCHANGED resolveVars
    /\ UNCHANGED accessVars
    /\ UNCHANGED ctlVars

\* the signals a tick of the controller c gets: none, a movement key, and
\* with mouse look on the cursor three pixels off the centre (with mouse
\* look off the cursor is not read: input.rs:71-73)
LoopInputs(m, c) ==
    { QuietInput,
      [ QuietInput EXCEPT !.keys.forward = TRUE ] }
    \cup (IF m = "matrix" /\ c.mouse_handler.enabled
          THEN { [ QuietInput EXCEPT !.cursor = Some(<< 3, 0 >>) ] }
          ELSE { })

\* no call of the tick fails
NoFailure == [ rd |-> 0, wr |-> 0, display |-> 0 ]

\* a tick without signals and without failures
QuietTick(in, out) == in = QuietInput /\ out = NoFailure

\* the failing call of the read, of the write-back and of the read main makes
\* to print the position (0: none); what follows a failure is not reached
TickOutcomes ==
    { out \in [ rd : { 0, 6 }, wr : { 0, 6 }, display : { 0, 2 } ] :
        /\ out.rd # 0 => out.wr = 0 /\ out.display = 0
        /\ out.wr # 0 => out.display = 0 }

\* main.rs:185-201 / 309-324: after a tick that moved the position is read
\* once more to print it; a failure of that read is dropped (if let Ok)
display_position(r, fail_at) ==
    IF r.ok /\ r.moved
    THEN IF get_camera_position(target_ptrs, r.cam, base_addr, fail_at).ok
         THEN "ok" ELSE "failed"
    ELSE "none"

\* the mutant of after_tick: the loop goes on after Err
after_tick_retry(ok, m) == LoopTop(m)

\* main.rs:183-211 / 307-334: Ok goes round the loop (after the 16 ms
\* sleep), Err breaks out of it
after_tick(ok, m) == IF ok THEN LoopTop(m) ELSE "exited"

\* main.rs:183-211: the tick of the matrix controller
UpdateCamera ==
    /\ pc = "update"
    /\ mode = "matrix"
    /\ \E c \in { controller[i] : i \in 1..Len(controller) } :
       \E in \in LoopInputs(mode, c), out \in TickOutcomes :
          /\ QuietTick(in, out) \/ ops + moves < MaxOps
          /\ \E r \in { update_camera(c, target_ptrs, camera_mem, base_addr, in, out) } :
                /\ controller' = Some(r.controller)
                /\ camera_mem' = r.cam
                /\ tick' = TickRecord(mode, c, in, r,
                                      display_position(r, out.display))
                /\ moves' = moves + (IF QuietTick(in, out) THEN 0 ELSE 1)
                /\ pc' = after_tick(r.ok, mode)
    /\ patch_poll' = NoPoll
    /\ UNCHANGED << camera_matrix, cursor >>
    /\ UNCHANGED << process_handle, mode, mouse_toggle_pressed, startup >>
    /\ UNCHANGED << mem, prot, camera_patch, patch_toggle_pressed, patch_addr,
                    ops, last, first_site >>
    /\ UNCHANGED resolveVars
    /\ UNCHANGED accessVars

\* main.rs:307-334: the tick of the position-only controller
BasicUpdateCamera ==
    /\ pc = "update"
    /\ mode = "basic"
    /\ \E c \in { controller[i] : i \in 1..Len(controller) } :
       \E in \in LoopInputs(mode, c), out \in TickOutcomes :
          /\ QuietTick(in, out) \/ ops + moves < MaxOps
          /\ \E r \in { basic_update_camera(c, target_ptrs, camera_mem, base_addr, in, out) } :
                /\ controller' = Some(r.controller)
                /\ camera_mem' = r.cam
                /\ tick' = TickRecord(mode, c, in, r,
                                      display_position(r, out.display))
                /\ moves' = moves + (IF QuietTick(in, out) THEN 0 ELSE 1)
                /\ pc' = after_tick(r.ok, mode)
    /\ patch_poll' = NoPoll
    /\ UNCHANGED << camera_matrix, cursor >>
    /\ UNCHANGED << process_handle, mode, mouse_toggle_pressed, startup >>
    /\ UNCHANGED << mem, prot, camera_patch, patch_toggle_pressed, patch_addr,
                    ops, last, first_site >>
    /\ UNCHANGED resolveVars
    /\ UNCHANGED accessVars

\* the mutant of drop_handle: the handle is never closed
drop_handle_leak(h) == h

\* process.rs:454-460: Drop closes the handle the value holds
drop_handle(h) ==
    IF h.open > 0
    THEN [ h EXCEPT !.open = h.open - 1, !.closed = h.closed + 1 ]
    ELSE h

\* main.rs:345-351: after the loop main prints and returns; nothing is done
\* about camera_patch, the process handle is dropped (process.rs:454-460)
Exit ==
    /\ pc = "exited"
    /\ pc' = "done"
    /\ process_handle' = drop_handle(process_handle)
    /\ UNCHANGED << camera_matrix, cursor >>
    /\ UNCHANGED << mode, controller, mouse_toggle_pressed, camera_mem, startup,
                    tick, moves >>
    /\ UNCHANGED patchVars
    /\ UNCHANGED resolveVars
    /\ UNCHANGED accessVars

Next ==
    \/ Attach
    \/ GetBaseAddress
    \/ TestPosition
    \/ TestMatrix
    \/ MouseKeyUp
    \/ MouseKeyHeld
    \/ MouseToggle
    \/ PatchKeyUp
    \/ PatchKeyHeld
    \/ PatchToggleRestore
    \/ PatchToggleDiscover
    \/ PatchToggleApply
    \/ UpdateCamera
    \/ BasicUpdateCamera
    \/ Exit

Spec == Init /\ [][Next]_vars

(***************************************************************************)
(* The patch manager called directly: a caller that patches one site (one  *)
(* of the first two candidates, which are on different pages), with any    *)
(* length up to MaxPatchLen on each call, and keeps the patch it was given.*)
(***************************************************************************)
PatchInit ==
    /\ InitTarget
    /\ camera_patch = None
    /\ patch_toggle_pressed = FALSE
    /\ patch_poll = NoPoll
    /\ patch_addr \in { addresses_to_try(base_addr)[i] : i \in 1..2 }
    /\ pc = "patch"
    /\ ops = 0
    /\ last = NoOperation
    /\ first_site = None
    /\ target_ptrs = << >>
    /\ resolved = NotResolved
    /\ access = NoAccess
    /\ ControlIdle

ApplyNopPatch ==
    /\ pc = "patch"
    /\ ops < MaxOps
    /\ \E length \in 1..MaxPatchLen :
          /\ \E o \in PatchOutcomes(length) :
             \E r \in { patch_with_nops(mem, prot, patch_addr, length, o) } :
                /\ mem' = r.mem
                /\ prot' = r.prot
                /\ camera_patch' = IF r.ok THEN r.patch ELSE camera_patch
                /\ last' = ApplyRecord(r, patch_addr, length)
    /\ ops' = ops + 1
    /\ UNCHANGED << patch_toggle_pressed, patch_poll, patch_addr, pc, first_site >>
    /\ UNCHANGED resolveVars
    /\ UNCHANGED accessVars
    /\ UNCHANGED ctlVars

RestorePatch ==
    /\ pc = "patch"
    /\ ops < MaxOps
    /\ camera_patch # None
    /\ \E patch \in { camera_patch[i] : i \in 1..Len(camera_patch) } :
       \E o \in RestoreOutcomes(Len(patch.original_bytes)) :
          \E r \in { restore_patch(mem, prot, patch, o) } :
              /\ mem' = r.mem
              /\ prot' = r.prot
              /\ camera_patch' = r.patch
              /\ last' = RestoreRecord(r, patch)
    /\ ops' = ops + 1
    /\ UNCHANGED << patch_toggle_pressed, patch_poll, patch_addr, pc, first_site >>
    /\ UNCHANGED resolveVars
    /\ UNCHANGED accessVars
    /\ UNCHANGED ctlVars

PatchNext == ApplyNopPatch \/ RestorePatch

PatchSpec == PatchInit /\ [][PatchNext]_vars

(***************************************************************************)
(* The resolver called directly, once, with any chain of up to MaxChain    *)
(* offsets, on a target whose data is any assignment of the boundary       *)
(* values to a few mapped addresses.                                       *)
(***************************************************************************)
\* the camera chain starts at base + 0x004E1E78 (process.rs:347, 353)
ChainBase == Wide(base_addr + base_offset)
\* the offsets a chain is made of
ChainOffsets == { 0, 8 }
\* the 32-bit values the target holds: 0, 0xFFFF, 0x10000, 0x7FFFFFFF,
\* 0x80000000
PointerValues ==
    { << 0, 0 >>, << 0, 65535 >>, << 1, 0 >>, << 32767, 65535 >>, << 32768, 0 >> }
\* the addresses the target has mapped: the chain base, 0x10000, 0x10008 and
\* 0x7FFFFFFF
MappedCells == { ChainBase, << 1, 0 >>, << 1, 8 >>, << 32767, 65535 >> }
\* the chains of up to MaxChain offsets
Chains == UNION { [ 1..n -> ChainOffsets ] : n \in 0..MaxChain }
\* the outcomes of the reads of a chain; the last offset has no read
ChainOutcomes(offsets) ==
    { outs \in [ 1..MaxChain -> TransferOutcomes(4) ] :
        \A i \in 1..MaxChain : i >= Len(offsets) => outs[i] = Complete(4) }

ResolveInit ==
    /\ mem = << >>
    /\ prot = << >>
    /\ camera_patch = None
    /\ patch_toggle_pressed = FALSE
    /\ patch_poll = NoPoll
    /\ patch_addr = 0
    /\ pc = "resolve"
    /\ ops = 0
    /\ last = NoOperation
    /\ first_site = None
    /\ target_ptrs \in [ MappedCells -> PointerValues ]
    /\ resolved = NotResolved
    /\ access = NoAccess
    /\ ControlIdle

Resolve ==
    /\ pc = "resolve"
    /\ ~resolved.called
    /\ \E offsets \in Chains :
       \E outs \in ChainOutcomes(offsets) :
          resolved' = [ called |-> TRUE, base_address |-> ChainBase,
                        offsets |-> offsets, outs |-> outs,
                        target_before |-> target_ptrs,
                        res |-> resolve_pointer_chain(target_ptrs, ChainBase,
                                                      offsets, outs) ]
    /\ UNCHANGED << target_ptrs, pc >>
    /\ UNCHANGED patchVars
    /\ UNCHANGED accessVars
    /\ UNCHANGED ctlVars

ResolveNext == Resolve

ResolveSpec == ResolveInit /\ [][ResolveNext]_vars

(***************************************************************************)
(* The typed accessor called directly, on four bytes of the target's data, *)
(* any number of times.                                                    *)
(***************************************************************************)
\* the address of the four bytes: 0x10000
DataAddr == 65536
\* the bytes the target may hold there at the start
DataBytes == { 0, 18, 255 }
\* the values written: the bytes of 1.0f32 and of 0x04030201
TypedValues == { << 0, 0, 128, 63 >>, << 1, 2, 3, 4 >> }

AccessInit ==
    /\ mem \in [ DataAddr..(DataAddr + SIZE_OF_T - 1) -> DataBytes ]
    /\ prot = << >>
    /\ camera_patch = None
    /\ patch_toggle_pressed = FALSE
    /\ patch_poll = NoPoll
    /\ patch_addr = 0
    /\ pc = "access"
    /\ ops = 0
    /\ last = NoOperation
    /\ first_site = None
    /\ target_ptrs = << >>
    /\ resolved = NotResolved
    /\ access = NoAccess
    /\ ControlIdle

\* the record of a call that gave r
AccessRecord(op, address, r) ==
    [ called |-> TRUE, op |-> op, address |-> address, ok |-> r.ok,
      moved |-> r.moved, value |-> r.value, mem_before |-> mem ]

ReadTyped ==
    /\ pc = "access"
    /\ \E o \in TransferOutcomes(SIZE_OF_T) :
       \E r \in { read_memory(mem, DataAddr, o) } :
          /\ mem' = r.mem
          /\ access' = AccessRecord("read", DataAddr, r)
    /\ UNCHANGED << prot, camera_patch, patch_toggle_pressed, patch_poll, patch_addr, pc,
                    ops, last, first_site >>
    /\ UNCHANGED resolveVars
    /\ UNCHANGED ctlVars

WriteTyped ==
    /\ pc = "access"
    /\ \E value \in TypedValues :
       \E o \in TransferOutcomes(SIZE_OF_T) :
       \E r \in { write_memory(mem, DataAddr, value, o) } :
          /\ mem' = r.mem
          /\ access' = AccessRecord("write", DataAddr, r)
    /\ UNCHANGED << prot, camera_patch, patch_toggle_pressed, patch_poll, patch_addr, pc,
                    ops, last, first_site >>
    /\ UNCHANGED resolveVars
    /\ UNCHANGED ctlVars

AccessNext == ReadTyped \/ WriteTyped

AccessSpec == AccessInit /\ [][AccessNext]_vars

(***************************************************************************)
(* The controllers on their own: update_camera is called tick after tick   *)
(* on a target that holds a transform, with mouse look switched on and off *)
(* in between.  A tick may follow one that returned Err (main never does   *)
(* that, the controller allows it).                                        *)
(***************************************************************************)
\* how many ticks a run has
MaxTicks == 2

\* MouseHandler::new(sensitivity): 0.5 as in main.rs:107, and 0.005, with
\* which a cursor two pixels off the centre gives a delta of 0.01
Sensitivities == { ONE \div 2, ONE \div 200 }

\* the controllers at the start: main.rs:107 and 247
StartControllers(m) ==
    IF m = "matrix"
    THEN { CameraController_new(5 * ONE, sens) : sens \in Sensitivities }
    ELSE { BasicCameraController_new(10 * ONE) }

TickInit ==
    /\ mem = << >>
    /\ prot = << >>
    /\ camera_patch = None
    /\ patch_toggle_pressed = FALSE
    /\ patch_poll = NoPoll
    /\ patch_addr = 0
    /\ pc = "tick"
    /\ ops = 0
    /\ last = NoOperation
    /\ first_site = None
    /\ target_ptrs \in TargetChains
    /\ resolved = NotResolved
    /\ access = NoAccess
    /\ process_handle = attach(<< TRUE, TRUE, TRUE >>)
    /\ mode \in { "matrix", "basic" }
    /\ controller \in { Some(c) : c \in StartControllers(mode) }
    /\ mouse_toggle_pressed = FALSE
    /\ camera_mem \in { CameraData(data) : data \in StartTransforms }
    /\ startup = [ position |-> "ok",
                   matrix |-> IF mode = "matrix" THEN "ok" ELSE "failed" ]
    /\ tick = NoTick
    /\ moves = 0
    /\ camera_matrix = NoMatrix
    /\ cursor = NoCursor

\* the movement keys that are down in a tick (input.rs:118-126)
TickKeys ==
    { MovementInput_new,
      [ MovementInput_new EXCEPT !.forward = TRUE ],
      [ MovementInput_new EXCEPT !.backward = TRUE ],
      [ MovementInput_new EXCEPT !.forward = TRUE, !.backward = TRUE,
                                 !.up = TRUE, !.down = TRUE ],
      [ MovementInput_new EXCEPT !.backward = TRUE, !.down = TRUE ],
      [ MovementInput_new EXCEPT !.left = TRUE, !.up = TRUE ],
      [ MovementInput_new EXCEPT !.right = TRUE ],
      [ MovementInput_new EXCEPT !.left = TRUE, !.right = TRUE ] }

\* where the cursor is in a tick, in pixels from the centre, or None when
\* GetCursorPos fails (input.rs:75-92)
TickCursors ==
    { None, Some(<< 2, 0 >>), Some(<< 3, 0 >>), Some(<< 0, 4000 >>),
      Some(<< 0, -4000 >>) }

\* the signals of a tick of the controller c; with mouse look off the cursor
\* is not read (input.rs:71-73), wherever it is
TickInputs(c) ==
    { [ QuietInput EXCEPT !.keys = k ] : k \in TickKeys }
    \cup { [ QuietInput EXCEPT !.speed_delta = get_speed_delta(up, ~up) ] :
             up \in BOOLEAN }
    \cup (IF c.mouse_handler.enabled
          THEN { [ QuietInput EXCEPT !.cursor = cur ] : cur \in TickCursors }
               \cup { [ QuietInput EXCEPT !.cursor = Some(<< 3, 0 >>),
                                          !.keys.forward = TRUE ] }
          ELSE { [ QuietInput EXCEPT !.cursor = Some(<< 0, 4000 >>) ],
                 [ QuietInput EXCEPT !.cursor = Some(<< 3, 0 >>),
                                     !.keys.forward = TRUE ] })

\* the failing call of the read and of the write-back of a tick (0: none)
TickFailures ==
    { out \in [ rd : FailPoints, wr : { 0, 6, 10, 12 }, display : { 0 } ] :
        out.rd # 0 => out.wr = 0 }

\* controller.rs:95-164: a tick of the matrix controller
MatrixTick ==
    /\ pc = "tick"
    /\ mode = "matrix"
    /\ moves < MaxTicks
    /\ \E c \in { controller[i] : i \in 1..Len(controller) } :
       \E in \in TickInputs(c), out \in TickFailures :
       \E r \in { update_camera(c, target_ptrs, camera_mem, base_addr, in, out) } :
          /\ controller' = Some(r.controller)
          /\ camera_mem' = r.cam
          /\ tick' = TickRecord(mode, c, in, r, "none")
    /\ moves' = moves + 1
    /\ UNCHANGED << camera_matrix, cursor >>
    /\ UNCHANGED << process_handle, mode, mouse_toggle_pressed, startup >>
    /\ UNCHANGED pc
    /\ UNCHANGED patchVars
    /\ UNCHANGED resolveVars
    /\ UNCHANGED accessVars

\* controller.rs:201-258: a tick of the position-only controller
BasicTick ==
    /\ pc = "tick"
    /\ mode = "basic"
    /\ moves < MaxTicks
    /\ \E c \in { controller[i] : i \in 1..Len(controller) } :
       \E in \in TickInputs(c), out \in TickFailures :
       \E r \in { basic_update_camera(c, target_ptrs, camera_mem, base_addr,
                                      in, out) } :
          /\ controller' = Some(r.controller)
          /\ camera_mem' = r.cam
          /\ tick' = TickRecord(mode, c, in, r, "none")
    /\ moves' = moves + 1
    /\ UNCHANGED << camera_matrix, cursor >>
    /\ UNCHANGED << process_handle, mode, mouse_toggle_pressed, startup >>
    /\ UNCHANGED pc
    /\ UNCHANGED patchVars
    /\ UNCHANGED resolveVars
    /\ UNCHANGED accessVars

\* controller.rs:44-46
EnableMouse ==
    /\ pc = "tick"
    /\ mode = "matrix"
    /\ \E c \in { controller[i] : i \in 1..Len(controller) } :
          /\ ~c.mouse_handler.enabled
          /\ controller' = Some(enable_mouse(c))
    /\ UNCHANGED << camera_matrix, cursor >>
    /\ UNCHANGED << process_handle, mode, mouse_toggle_pressed, camera_mem,
                    startup, tick, moves >>
    /\ UNCHANGED pc
    /\ UNCHANGED patchVars
    /\ UNCHANGED resolveVars
    /\ UNCHANGED accessVars

\* controller.rs:48-50
DisableMouse ==
    /\ pc = "tick"
    /\ mode = "matrix"
    /\ \E c \in { controller[i] : i \in 1..Len(controller) } :
          /\ c.mouse_handler.enabled
          /\ controller' = Some(disable_mouse(c))
    /\ UNCHANGED << camera_matrix, cursor >>
    /\ UNCHANGED << process_handle, mode, mouse_toggle_pressed, camera_mem,
                    startup, tick, moves >>
    /\ UNCHANGED pc
    /\ UNCHANGED patchVars
    /\ UNCHANGED resolveVars
    /\ UNCHANGED accessVars

TickNext == MatrixTick \/ BasicTick \/ EnableMouse \/ DisableMouse

TickSpec == TickInit /\ [][TickNext]_vars

(***************************************************************************)
(* The speed of a controller: new(move_speed, ...) with any speed, then    *)
(* increase and decrease signals.                                          *)
(***************************************************************************)
\* how many signals a run has
MaxSignals == 6

\* the speeds a controller is constructed with: new() takes any f32
\* (controller.rs:18-20, 178-180); 5.0 and 10.0 are those of main
InitialSpeeds ==
    { -(5 * ONE), MIN_SPEED \div 2, MIN_SPEED, 3 * MIN_SPEED, 5 * ONE, 10 * ONE,
      MAX_SPEED - 2 * MIN_SPEED, MAX_SPEED, 2 * MAX_SPEED }

SpeedInit ==
    /\ mem = << >>
    /\ prot = << >>
    /\ camera_patch = None
    /\ patch_toggle_pressed = FALSE
    /\ patch_poll = NoPoll
    /\ patch_addr = 0
    /\ pc = "speed"
    /\ ops = 0
    /\ last = NoOperation
    /\ first_site = None
    /\ target_ptrs = << >>
    /\ resolved = NotResolved
    /\ access = NoAccess
    /\ process_handle = NoHandle
    /\ mode \in { "matrix", "basic" }
    /\ \E move_speed \in InitialSpeeds :
          controller = Some(IF mode = "matrix"
                            THEN CameraController_new(move_speed, ONE \div 2)
                            ELSE BasicCameraController_new(move_speed))
    /\ mouse_toggle_pressed = FALSE
    /\ camera_mem = << >>
    /\ startup = NoStartup
    /\ tick = NoTick
    /\ moves = 0
    /\ camera_matrix = NoMatrix
    /\ cursor = NoCursor

\* controller.rs:32-34, 189-191
IncreaseSpeed ==
    /\ pc = "speed"
    /\ moves < MaxSignals
    /\ \E c \in { controller[i] : i \in 1..Len(controller) } :
          controller' = Some(increase_speed(c))
    /\ moves' = moves + 1
    /\ UNCHANGED << camera_matrix, cursor >>
    /\ UNCHANGED << process_handle, mode, mouse_toggle_pressed, camera_mem,
                    startup, tick >>
    /\ UNCHANGED pc
    /\ UNCHANGED patchVars
    /\ UNCHANGED resolveVars
    /\ UNCHANGED accessVars

\* controller.rs:36-38, 193-195
DecreaseSpeed ==
    /\ pc = "speed"
    /\ moves < MaxSignals
    /\ \E c \in { controller[i] : i \in 1..Len(controller) } :
          controller' = Some(decrease_speed(c))
    /\ moves' = moves + 1
    /\ UNCHANGED << camera_matrix, cursor >>
    /\ UNCHANGED << process_handle, mode, mouse_toggle_pressed, camera_mem,
                    startup, tick >>
    /\ UNCHANGED pc
    /\ UNCHANGED patchVars
    /\ UNCHANGED resolveVars
    /\ UNCHANGED accessVars

SpeedNext == IncreaseSpeed \/ DecreaseSpeed

SpeedSpec == SpeedInit /\ [][SpeedNext]_vars

(***************************************************************************)
(* The discovery of the patch target on its own: the three candidates hold *)
(* the signature or other bytes in any combination, and every probe read   *)
(* may fail or come back short.                                            *)
(***************************************************************************)
DiscoverInit ==
    /\ \E sig \in SUBSET Sites :
          mem = [ a \in ByteAddrs |->
                    IF SiteOf(a) \in sig THEN SigBytes(a - SiteOf(a))
                                         ELSE OtherBytes(a - SiteOf(a)) ]
    /\ prot = [ g \in Pages |-> PAGE_EXECUTE_READ ]
    /\ camera_patch = None
    /\ patch_toggle_pressed = FALSE
    /\ patch_poll = NoPoll
    /\ patch_addr = 0
    /\ pc = "discover"
    /\ ops = 0
    /\ last = NoOperation
    /\ first_site = None
    /\ target_ptrs = << >>
    /\ resolved = NotResolved
    /\ access = NoAccess
    /\ ControlIdle

\* the record of a discovery that gave r when its probes came back as outs
DiscoverRecord(r, outs) ==
    [ op |-> "discover", ok |-> r.ok, address |-> r.addr, log |-> r.log,
      mem_before |-> mem, outs |-> outs ]

\* process.rs:301-343
Discover ==
    /\ pc = "discover"
    /\ \E outs \in ProbeOutcomes :
       \E r \in { get_camera_write_patch_address(mem, base_addr, outs) } :
          /\ patch_addr' = r.addr
          /\ last' = DiscoverRecord(r, outs)
    /\ UNCHANGED << mem, prot, camera_patch, patch_toggle_pressed, patch_poll, pc, ops,
                    first_site >>
    /\ UNCHANGED resolveVars
    /\ UNCHANGED accessVars
    /\ UNCHANGED ctlVars

DiscoverNext == Discover

DiscoverSpec == DiscoverInit /\ [][DiscoverNext]_vars

(***************************************************************************)
(* The methods of CameraMatrix and the reconstruction of the controller on *)
(* their own: a matrix, and calls with arguments from small sets.  Each    *)
(* call is kept with its argument and the data before and after it.        *)
(***************************************************************************)
\* how many calls a run of the methods has
MaxMatrixOps == 2

\* a transform of no special form: every element differs from every other,
\* the fourth column is not zero and the rows are not unit vectors
SkewTransform == [ i \in 0..15 |-> (i - 7) * (ONE \div 8) ]

StartMatrices == StartTransforms \cup { CameraMatrix_new, SkewTransform }

\* no turn, and a twelfth and a quarter of a turn either way
MatrixAngles == { 0, PI \div 6, -(PI \div 6), FRAC_PI_2, -FRAC_PI_2 }

MatrixPositions ==
    { CameraPosition(0, 0, 0),
      CameraPosition(-(ONE \div 2), 7 * ONE, ONE \div 4) }

\* the steps of apply_translation: along one axis each, and along all three
MatrixSteps ==
    { << ONE, 0, 0 >>, << 0, -ONE, 0 >>, << 0, 0, 2 * ONE >>,
      << ONE \div 2, -(2 * ONE), ONE + (ONE \div 2) >> }

MatrixInit ==
    /\ camera_matrix \in { [ data |-> m, calls |-> << >> ] : m \in StartMatrices }
    /\ cursor = NoCursor
    /\ mem = << >>
    /\ prot = << >>
    /\ camera_patch = None
    /\ patch_toggle_pressed = FALSE
    /\ patch_poll = NoPoll
    /\ patch_addr = 0
    /\ pc = "matrix"
    /\ ops = 0
    /\ last = NoOperation
    /\ first_site = None
    /\ target_ptrs = << >>
    /\ resolved = NotResolved
    /\ access = NoAccess
    /\ process_handle = NoHandle
    /\ mode = "none"
    /\ controller = None
    /\ mouse_toggle_pressed = FALSE
    /\ camera_mem = << >>
    /\ startup = NoStartup
    /\ tick = NoTick
    /\ moves = 0

\* the matrix after a call of op with arg that left it holding data
MatrixCall(op, arg, data) ==
    [ data  |-> data,
      calls |-> Append(camera_matrix.calls,
                       [ op |-> op, arg |-> arg, before |-> camera_matrix.data,
                         after |-> data ]) ]

\* what every call of a method leaves alone
MatrixFrame ==
    /\ pc = "matrix"
    /\ Len(camera_matrix.calls) < MaxMatrixOps
    /\ UNCHANGED << cursor, pc >>
    /\ UNCHANGED patchVars
    /\ UNCHANGED resolveVars
    /\ UNCHANGED accessVars
    /\ UNCHANGED << process_handle, mode, controller, mouse_toggle_pressed,
                    camera_mem, startup, tick, moves >>

\* camera.rs:21-29
New ==
    /\ MatrixFrame
    /\ camera_matrix' = MatrixCall("new", << >>, CameraMatrix_new)

\* camera.rs:35-39
SetPosition ==
    /\ MatrixFrame
    /\ \E pos \in MatrixPositions :
          camera_matrix' = MatrixCall("set_position", pos,
                                      set_position(camera_matrix.data, pos))

\* camera.rs:41-67
ApplyPitch ==
    /\ MatrixFrame
    /\ \E angle \in MatrixAngles :
          camera_matrix' = MatrixCall("apply_pitch", angle,
                                      apply_pitch(camera_matrix.data, angle))

\* camera.rs:69-95
ApplyYaw ==
    /\ MatrixFrame
    /\ \E angle \in MatrixAngles :
          camera_matrix' = MatrixCall("apply_yaw", angle,
                                      apply_yaw(camera_matrix.data, angle))

\* camera.rs:97-114
ApplyTranslation ==
    /\ MatrixFrame
    /\ \E d \in MatrixSteps :
          camera_matrix' =
              MatrixCall("apply_translation", d,
                         apply_translation(camera_matrix.data, d[1], d[2], d[3]))

\* camera.rs:116-128
MultiplyMatrix ==
    /\ MatrixFrame
    /\ \E a \in { camera_matrix.data, CameraMatrix_new } :
       \E b \in { camera_matrix.data, LevelTransform } :
          camera_matrix' = MatrixCall("multiply_matrix", << a, b >>,
                                      multiply_matrix(a, b))

\* controller.rs:56-93
Reconstruct ==
    /\ MatrixFrame
    /\ \E yaw \in MatrixAngles :
       \E pitch \in { 0, PI \div 6 } :
          camera_matrix' =
              MatrixCall("reconstruct_camera_matrix", << yaw, pitch >>,
                         reconstruct_camera_matrix(yaw, pitch, camera_matrix.data))

\* the forward vectors for which Asin and Atan2 give the angles
SeedDefined(data) ==
    /\ get_forward(data).y \in { -ONE, -(ONE \div 2), 0, ONE \div 2, ONE }
    /\ get_forward(data).x = 0 \/ get_forward(data).z = 0

\* controller.rs:110-118 and then 56-93: the angles of a new controller are
\* seeded from the matrix and the rows reconstructed from them, with no
\* mouse delta added in between
SeedAndReconstruct ==
    /\ MatrixFrame
    /\ SeedDefined(camera_matrix.data)
    /\ \E c \in { seed_from(CameraController_new(5 * ONE, ONE \div 2),
                             camera_matrix.data) } :
          camera_matrix' =
              MatrixCall("seed_and_reconstruct", << c.yaw, c.pitch >>,
                         reconstruct_camera_matrix(c.yaw, c.pitch, camera_matrix.data))

MatrixNext ==
    \/ SeedAndReconstruct
    \/ New
    \/ SetPosition
    \/ ApplyPitch
    \/ ApplyYaw
    \/ ApplyTranslation
    \/ MultiplyMatrix
    \/ Reconstruct

MatrixSpec == MatrixInit /\ [][MatrixNext]_vars

(***************************************************************************)
(* The mouse handler on its own: the user moves the cursor, the handler is *)
(* enabled and disabled, and get_delta is called as a tick calls it.       *)
(***************************************************************************)
\* how many samples of the cursor a run has
MaxSamples == 3

\* where the cursor is at the start, from the screen centre, in pixels
CursorStarts == { << 0, 0 >>, << 30, -20 >> }

\* how the user moves the mouse between two samples, in pixels
CursorMoves == { << 1, 0 >>, << 0, -1 >>, << 2, 0 >>, << -3, 4 >> }

MouseInit ==
    /\ cursor \in { [ NoCursor EXCEPT !.at = a ] : a \in CursorStarts }
    /\ controller \in { Some(c) : c \in StartControllers("matrix") }
    /\ mode = "matrix"
    /\ pc = "mouse"
    /\ camera_matrix = NoMatrix
    /\ mem = << >>
    /\ prot = << >>
    /\ camera_patch = None
    /\ patch_toggle_pressed = FALSE
    /\ patch_poll = NoPoll
    /\ patch_addr = 0
    /\ ops = 0
    /\ last = NoOperation
    /\ first_site = None
    /\ target_ptrs = << >>
    /\ resolved = NotResolved
    /\ access = NoAccess
    /\ process_handle = NoHandle
    /\ mouse_toggle_pressed = FALSE
    /\ camera_mem = << >>
    /\ startup = NoStartup
    /\ tick = NoTick
    /\ moves = 0

\* what the mouse handler and the user leave alone
MouseFrame ==
    /\ pc = "mouse"
    /\ UNCHANGED << camera_matrix, pc >>
    /\ UNCHANGED patchVars
    /\ UNCHANGED resolveVars
    /\ UNCHANGED accessVars
    /\ UNCHANGED << process_handle, mode, mouse_toggle_pressed, camera_mem,
                    startup, tick, moves >>

\* the user moves the mouse, once between two samples
MoveCursor ==
    /\ MouseFrame
    /\ Len(cursor.samples) < MaxSamples
    /\ cursor.moved = << 0, 0 >>
    /\ \E d \in CursorMoves :
          cursor' = [ cursor EXCEPT !.at = << @[1] + d[1], @[2] + d[2] >>,
                                    !.moved = d ]
    /\ UNCHANGED controller

\* controller.rs:44-46 and input.rs:54-60
MouseEnable ==
    /\ MouseFrame
    /\ ~controller[1].mouse_handler.enabled
    /\ controller' = Some(enable_mouse(controller[1]))
    /\ cursor' = [ cursor EXCEPT !.at = enable_cursor(@), !.moved = << 0, 0 >> ]

\* controller.rs:48-50 and input.rs:62-64
MouseDisable ==
    /\ MouseFrame
    /\ controller[1].mouse_handler.enabled
    /\ controller' = Some(disable_mouse(controller[1]))
    /\ UNCHANGED cursor

\* input.rs:70-93, as controller.rs:122 calls it: GetCursorPos gives the
\* cursor or fails.  A sample is kept with the movement of the user since
\* the sample before it (or since enable); a call that read no cursor took
\* no sample
GetDelta ==
    /\ MouseFrame
    /\ Len(cursor.samples) < MaxSamples
    /\ \E cursor_read \in BOOLEAN :
          cursor' =
              [ at      |-> get_delta_cursor(controller[1].mouse_handler,
                                             cursor.at, cursor_read),
                moved   |-> IF cursor_read /\ controller[1].mouse_handler.enabled
                            THEN << 0, 0 >> ELSE cursor.moved,
                samples |-> Append(cursor.samples,
                    [ enabled     |-> controller[1].mouse_handler.enabled,
                      cursor_read |-> cursor_read,
                      delta       |-> get_delta(controller[1].mouse_handler,
                                                IF cursor_read THEN Some(cursor.at)
                                                               ELSE None),
                      moved       |-> cursor.moved,
                      at_before   |-> cursor.at,
                      at_after    |-> get_delta_cursor(controller[1].mouse_handler,
                                                       cursor.at, cursor_read) ]) ]
    /\ UNCHANGED controller

MouseNext ==
    \/ MoveCursor
    \/ MouseEnable
    \/ MouseDisable
    \/ GetDelta

MouseSpec == MouseInit /\ [][MouseNext]_vars

(***************************************************************************)
(* Claims about the patch manager, under PatchSpec.                        *)
(***************************************************************************)
\* the bytes now at the site of the last operation
SiteBytes == BytesAt(mem, last.address, last.length)
\* the protection now on the page of the last operation
SiteProt == prot[Page(last.address)]
\* where in its log an operation relaxes the protection
RelaxIndex == IF last.op = "apply" THEN 2 ELSE 1
\* the last operation got the protection relaxed
Relaxed == Len(last.log) >= RelaxIndex /\ last.log[RelaxIndex].ok
\* the i-th OS call of the last operation asked for the protection the page
\* had before the operation
IsUnprotect(i) ==
    /\ last.log[i].call = "VirtualProtectEx"
    /\ last.log[i].address = last.address
    /\ last.log[i].arg = last.prot_before

\* C1: patch_with_nops that returns Ok, followed immediately by restore_patch
\* of the patch it gave that returns Ok, leaves the bytes at the site equal to
\* the bytes that were there before patch_with_nops was called.
C1_ApplyRestoreRoundTrip ==
    (last.op = "restore" /\ last.ok /\ last.after_apply)
        => SiteBytes = last.pre_apply

C3_RestoreNotApplied ==
    (last.op = "restore" /\ ~last.applied_before) =>
        /\ ~last.ok
        /\ last.err = "Patch is not currently applied"
        /\ last.log = << >>
        /\ SiteBytes = last.mem_before
        /\ SiteProt = last.prot_before
        /\ camera_patch # None
        /\ ~camera_patch[1].is_applied

\* C3's case: an apply, a restore that succeeded, and a restore again
C3_Witness ==
    /\ last.op = "restore"
    /\ ~last.applied_before
    /\ ops = 3
    /\ last.err = "Patch is not currently applied"

\* C4: patch_with_nops gives a CodePatch (is_applied = true) only if each of
\* its four steps succeeded: the read, the relaxation, the write and the
\* restoration of the protection.
C4_AppliedOnlyIfEveryStepSucceeded ==
    (last.op = "apply" /\ last.made_patch) =>
        /\ Len(last.log) = 4
        /\ \A i \in 1..4 : last.log[i].ok

\* C5: patch_with_nops that fails at the read or at the relaxation returns
\* an error with bytes and protection untouched and no patch; one that fails
\* at the write issues the protection restore before it returns the error,
\* with the bytes untouched and no patch.
C5_ApplyFailurePaths ==
    last.op = "apply" =>
        /\ ~last.log[1].ok =>
              /\ ~last.ok /\ ~last.made_patch
              /\ Len(last.log) = 1
              /\ SiteBytes = last.mem_before
              /\ SiteProt = last.prot_before
        /\ (Len(last.log) >= 2 /\ ~last.log[2].ok) =>
              /\ ~last.ok /\ ~last.made_patch
              /\ Len(last.log) = 2
              /\ SiteBytes = last.mem_before
              /\ SiteProt = last.prot_before
        /\ (Len(last.log) >= 3 /\ ~last.log[3].ok) =>
              /\ ~last.ok /\ ~last.made_patch
              /\ Len(last.log) = 4
              /\ IsUnprotect(4)
              /\ SiteBytes = last.mem_before
        /\ ~last.ok => \E i \in 1..3 : i <= Len(last.log) /\ ~last.log[i].ok

\* C5's case: the write of the no-op bytes failed
C5_Witness ==
    /\ last.op = "apply"
    /\ Len(last.log) = 4
    /\ ~last.log[3].ok
    /\ ~last.ok

(***************************************************************************)
(* Claims about the run loop, under Spec.                                  *)
(***************************************************************************)
\* C6: the original_bytes of the patch the run loop holds are always the
\* bytes that were at the patch site before the first apply, and never the
\* no-op bytes.
C6_OriginalBytesGroundTruth ==
    camera_patch # None =>
        /\ camera_patch[1].original_bytes = first_site[1].bytes
        /\ camera_patch[1].original_bytes # nop_bytes(PATCH_LENGTH)

\* C7: every patch_with_nops call of the run loop, the first and each one
\* after, is made at the same address with the same length.
C7_SameApplyTarget ==
    last.op = "apply" =>
        /\ last.address = first_site[1].address
        /\ last.length = Len(first_site[1].bytes)

\* C8: when main ends after the loop broke with a patch applied, a restore
\* of that patch was attempted after the loop.
C8_RestoreAttemptedAtExit ==
    (pc = "done" /\ camera_patch # None /\ camera_patch[1].is_applied) =>
        (last.op = "restore" /\ last.when = "exited")

(***************************************************************************)
(* Claims about the resolver, under ResolveSpec.                           *)
(***************************************************************************)
\* the last call failed at the k-th read, reporting step k - 1
FailedAtRead(k, err) ==
    /\ ~resolved.res.ok
    /\ resolved.res.err = err
    /\ resolved.res.step = k - 1
    /\ Len(resolved.res.log) = k

\* C9: a non-final step i whose read gives 0 fails the call with the null
\* pointer error reporting i; one whose read gives a value below 0x10000 or
\* at or above 0x80000000 fails it with the invalid pointer error reporting i
\* and the value; 0x10000 and 0x7FFFFFFF are accepted; no read follows the
\* failing one.
C9_PointerValidation ==
    \A k \in 1..Len(resolved.res.log) :
        LET rd == resolved.res.log[k]
        IN  rd.ok =>
              /\ rd.value = << 0, 0 >> => FailedAtRead(k, "Null pointer")
              /\ (rd.value # << 0, 0 >> /\ (rd.value[1] < 1 \/ rd.value[1] >= 32768)) =>
                    /\ FailedAtRead(k, "Invalid pointer value")
                    /\ resolved.res.value = rd.value
              /\ rd.value \in { << 1, 0 >>, << 32767, 65535 >> } =>
                    (resolved.res.ok \/ Len(resolved.res.log) > k)

\* C9's case: the second read of a chain gave 0x80000000
C9_Witness ==
    /\ resolved.called
    /\ Len(resolved.res.log) = 2
    /\ resolved.res.log[2].ok
    /\ resolved.res.log[2].value = << 32768, 0 >>
    /\ resolved.res.err = "Invalid pointer value"
    /\ resolved.res.step = 1

\* C10: a chain of one offset resolves to base_address + offsets[0] and
\* reads nothing from the target.
C10_SingleOffset ==
    (resolved.called /\ Len(resolved.offsets) = 1) =>
        /\ resolved.res.ok
        /\ Narrow(resolved.res.addr) = Narrow(resolved.base_address) + resolved.offsets[1]
        /\ resolved.res.log = << >>

\* C10's case: a chain of the one offset 8
C10_Witness ==
    /\ resolved.called
    /\ resolved.offsets = << 8 >>
    /\ resolved.res.ok

\* the sum of the pair v and the number d, written out on the halves
PairPlus(v, d) ==
    IF v[2] + d >= 65536 THEN << v[1] + 1, v[2] + d - 65536 >>
                         ELSE << v[1], v[2] + d >>

\* the walk the claim describes, over the first k offsets of the call: current
\* starts at the base and, for each offset but the last, becomes the value
\* the read at current gave plus that offset; the last offset is added
RECURSIVE WalkedAddress(_)
WalkedAddress(k) ==
    IF k = 0 THEN resolved.base_address
    ELSE IF k = Len(resolved.offsets)
    THEN PairPlus(WalkedAddress(k - 1), resolved.offsets[k])
    ELSE PairPlus(resolved.res.log[k].value, resolved.offsets[k])

\* C11: a call with n >= 1 offsets whose intermediate pointers are all valid
\* issues exactly n - 1 reads, the i-th at the address the walk has reached,
\* a complete read giving the four bytes the target holds there; it returns
\* the address the walk ends at, and the target's memory is what it was
\* before the call.
C11_ResolveWalk ==
    (resolved.called /\ Len(resolved.offsets) >= 1 /\ resolved.res.ok) =>
        /\ Len(resolved.res.log) = Len(resolved.offsets) - 1
        /\ \A k \in 1..Len(resolved.res.log) :
              /\ resolved.res.log[k].address = WalkedAddress(k - 1)
              /\ resolved.outs[k].n = 4 =>
                    resolved.res.log[k].value = target_ptrs[resolved.res.log[k].address]
        /\ resolved.res.addr = WalkedAddress(Len(resolved.offsets))
        /\ target_ptrs = resolved.target_before

\* C11's case: a chain of three offsets resolved through two valid pointers
C11_Witness ==
    /\ resolved.called
    /\ resolved.res.ok
    /\ Len(resolved.offsets) = 3
    /\ Len(resolved.res.log) = 2
    /\ resolved.offsets[1] = 8
    /\ resolved.res.addr = << 1, 8 >>

(***************************************************************************)
(* Claims about the typed accessor, under AccessSpec.                      *)
(***************************************************************************)
\* C12: read_memory and write_memory return an error whenever the OS moved
\* fewer bytes than the size of T, also when the OS call reported success,
\* and return success only when exactly that many bytes were moved.
C12_PartialTransferIsFailure ==
    access.called =>
        /\ access.moved < SIZE_OF_T => ~access.ok
        /\ access.ok => access.moved = SIZE_OF_T

(***************************************************************************)
(* Claims about main: the process handle, the faulted tick, the choice of  *)
(* the control loop.                                                       *)
(***************************************************************************)
\* where main issues memory and patch operations on the target
OperationPcs ==
    { "base", "test_position", "test_matrix", "mouse_toggle", "patch_toggle",
      "patch_apply", "update" }

\* C13: at most one process handle is open at any time and at most one is
\* ever opened; wherever main issues memory or patch operations the handle
\* is open and was not released; when main has returned, whatever failed
\* before, the handle that was opened has been released, once.
C13_HandleReleasedOnce ==
    /\ process_handle.open <= 1
    /\ process_handle.opened <= 1
    /\ process_handle.closed <= process_handle.opened
    /\ pc \in OperationPcs =>
          process_handle.open = 1 /\ process_handle.closed = 0
    /\ pc = "done" =>
          process_handle.open = 0
          /\ process_handle.closed = process_handle.opened

\* main returned after a patch operation and then a tick failed, and the
\* handle was released
C13_Witness ==
    /\ pc = "done"
    /\ process_handle.opened = 1
    /\ process_handle.closed = 1
    /\ last.op # "none" /\ ~last.ok
    /\ tick.called /\ ~tick.ok

\* the OS calls of the last tick that failed, by their place in its log
FailedCalls == { k \in 1..Len(tick.log) : ~tick.log[k].ok }

\* C14: a tick in which a read or a write of the target failed returned Err;
\* the failed call is the last one the tick issued (it is not repeated and
\* nothing follows it); after a tick that returned Err the loop is left, and
\* no tick ever comes after one that returned Err.
C14_FaultEndsLoop ==
    tick.called =>
        /\ FailedCalls # {} => ~tick.ok
        /\ FailedCalls \subseteq { Len(tick.log) }
        /\ ~tick.ok => pc \in { "exited", "done" }
        /\ ~tick.after_fault

\* a tick whose write-back failed returned Err, and main has returned
C14_Witness ==
    /\ tick.called
    /\ ~tick.ok
    /\ pc = "done"
    /\ \E k \in FailedCalls : tick.log[k].call = "WriteProcessMemory"

\* the positions of main inside a control loop
LoopPcs == { "mouse_toggle", "patch_toggle", "patch_apply", "update" }

\* C19: the position-only loop is chosen exactly when the position test
\* succeeded and the matrix test failed, the matrix loop exactly when both
\* succeeded; when the position test failed the matrix is not tried, no
\* loop is entered and no tick runs; every tick is of the controller of the
\* loop chosen.
C19_FallbackSelection ==
    /\ mode = "basic" <=> (startup.position = "ok" /\ startup.matrix = "failed")
    /\ mode = "matrix" <=> (startup.position = "ok" /\ startup.matrix = "ok")
    /\ startup.position = "failed" =>
          /\ startup.matrix = "untested"
          /\ mode = "none"
          /\ ~tick.called
          /\ pc \in { "exited", "done" }
    /\ pc \in LoopPcs => mode \in { "basic", "matrix" }
    /\ tick.called => tick.kind = mode

\* the matrix test failed after the position test succeeded, and the
\* position-only controller moved the camera
C19_Witness ==
    /\ startup.position = "ok"
    /\ startup.matrix = "failed"
    /\ mode = "basic"
    /\ tick.called /\ tick.kind = "basic" /\ tick.ok /\ tick.moved

(***************************************************************************)
(* Claims about the controllers.                                           *)
(***************************************************************************)
\* the controller before and after the last tick
TickBefore == tick.before[1]
TickAfter == controller[1]

\* the mouse delta of the last tick
TickDelta == get_delta(TickBefore.mouse_handler, tick.in.cursor)

\* the writes the last tick issued, by their place in its log
TickWrites == { k \in 1..Len(tick.log) : tick.log[k].call = "WriteProcessMemory" }

\* the last tick was one of the matrix controller that returned Ok, with no
\* movement key down and mouse look off or the delta inside the dead zone
QuietMatrixTick ==
    /\ tick.called
    /\ tick.kind = "matrix"
    /\ tick.ok
    /\ ~has_movement(tick.in.keys)
    /\ \/ ~TickBefore.mouse_handler.enabled
       \/ Abs(TickDelta[1]) <= DEAD_ZONE /\ Abs(TickDelta[2]) <= DEAD_ZONE

\* the last tick was one of the matrix controller that moved the camera
\* and whose write-back succeeded
MovedMatrixTick ==
    /\ tick.called
    /\ tick.kind = "matrix"
    /\ tick.ok
    /\ \/ has_movement(tick.in.keys)
       \/ TickBefore.mouse_handler.enabled
          /\ (Abs(TickDelta[1]) > DEAD_ZONE \/ Abs(TickDelta[2]) > DEAD_ZONE)

\* moved=true is returned, the transform computed is in the target and
\* lastKnownPosition is its position
MovedAndKept ==
    /\ tick.moved
    /\ TargetTransform(camera_mem) = tick.written[1]
    /\ TickAfter.last_position = Some(get_position(tick.written[1]))

\* C15 as stated: a quiet tick of the matrix controller issues no write,
\* leaves yaw, pitch and lastKnownPosition as they were and returns
\* moved=false; a tick that moved and wrote returns moved=true with
\* lastKnownPosition the position written.
C15_QuietTickChangesNothing ==
    /\ QuietMatrixTick =>
          /\ TickWrites = {}
          /\ ~tick.moved
          /\ TickAfter.yaw = TickBefore.yaw
          /\ TickAfter.pitch = TickBefore.pitch
          /\ TickAfter.last_position = TickBefore.last_position
    /\ MovedMatrixTick => MovedAndKept

\* C15 amended: a quiet tick issues no write, leaves the target as it was
\* and returns moved=false; it leaves yaw, pitch and lastKnownPosition as
\* they were unless it is the tick that seeds them (lastKnownPosition was
\* absent before it); a tick that moved and wrote returns moved=true with
\* lastKnownPosition the position written.
C15_QuietTickAfterSeed ==
    /\ QuietMatrixTick =>
          /\ TickWrites = {}
          /\ ~tick.moved
          /\ camera_mem = tick.cam_before
          /\ TickBefore.last_position # None =>
                /\ TickAfter.yaw = TickBefore.yaw
                /\ TickAfter.pitch = TickBefore.pitch
                /\ TickAfter.last_position = TickBefore.last_position
    /\ MovedMatrixTick => MovedAndKept

\* a quiet tick of a seeded controller with mouse look on and the cursor
\* off the centre, inside the dead zone
C15_Witness ==
    /\ QuietMatrixTick
    /\ TickBefore.last_position # None
    /\ TickBefore.mouse_handler.enabled
    /\ TickDelta # << 0, 0 >>

\* the last tick read the transform and turned the camera by the mouse
TickTurned ==
    /\ tick.read # None
    /\ TickBefore.mouse_handler.enabled
    /\ Abs(TickDelta[1]) > DEAD_ZONE \/ Abs(TickDelta[2]) > DEAD_ZONE

\* the angles the forward vector of the transform read in the last tick gives
ReadYaw == Atan2(get_forward(tick.read[1]).z, get_forward(tick.read[1]).x)
ReadPitch == Asin(-(get_forward(tick.read[1]).y))

\* the angles a tick that started from yaw and pitch ends with
AnglesFrom(yaw, pitch) ==
    IF TickTurned
    THEN << yaw + RADIANS_PER_DELTA * TickDelta[1],
            Clamp(pitch + RADIANS_PER_DELTA * TickDelta[2],
                  -PITCH_LIMIT, PITCH_LIMIT) >>
    ELSE << yaw, pitch >>

\* C16: before the first tick lastKnownPosition is absent, and it stays
\* absent (yaw and pitch at their defaults) through ticks whose read fails;
\* the first tick whose read succeeds makes it present and starts from the
\* angles of the transform it read; from then on lastKnownPosition stays
\* present and every tick starts from the angles the controller had, not
\* from the transform it read.
C16_SeededOnce ==
    mode = "matrix" =>
        /\ ~tick.called => TickAfter.last_position = None
        /\ TickAfter.last_position = None =>
              TickAfter.yaw = 0 /\ TickAfter.pitch = 0
        /\ (tick.called /\ TickBefore.last_position = None /\ tick.read = None) =>
              TickAfter.last_position = None
        /\ (tick.called /\ TickBefore.last_position = None /\ tick.read # None) =>
              /\ TickAfter.last_position # None
              /\ ~tick.moved =>
                    TickAfter.last_position = Some(get_position(tick.read[1]))
              /\ << TickAfter.yaw, TickAfter.pitch >>
                    = AnglesFrom(ReadYaw, ReadPitch)
        /\ (tick.called /\ TickBefore.last_position # None) =>
              /\ TickAfter.last_position # None
              /\ << TickAfter.yaw, TickAfter.pitch >>
                    = AnglesFrom(TickBefore.yaw, TickBefore.pitch)

\* a tick of a seeded controller read a transform whose forward vector
\* gives other angles than the controller holds
C16_Witness ==
    /\ mode = "matrix"
    /\ tick.called
    /\ TickBefore.last_position # None
    /\ tick.read # None
    /\ << ReadYaw, ReadPitch >> # << TickBefore.yaw, TickBefore.pitch >>

\* C18: the pitch of the matrix controller is within 0.99 * pi/2 of zero in
\* every state, and so is the pitch the rotation rows of a transform that
\* was written back were reconstructed from.
C18_PitchWithinLimit ==
    mode = "matrix" =>
        /\ Abs(TickAfter.pitch) <= PITCH_LIMIT
        /\ (tick.called /\ tick.written # None /\ TickTurned) =>
              tick.written[1][9] = -Sin(Clamp(TickAfter.pitch,
                                              -PITCH_LIMIT, PITCH_LIMIT))

\* where the three coordinates of the position are in the target
PositionAddrs ==
    { AddOffset(ChainPointers[Len(ChainPointers)], o) :
        o \in { x_offset, y_offset, z_offset } }

\* a key counts 1 when it is down and 0 otherwise
KeyDown(b) == IF b THEN 1 ELSE 0

\* the position read in the last tick moved by speed along the world axes
WorldMove(pos, mi, speed) ==
    CameraPosition(pos.x + speed * (KeyDown(mi.right) - KeyDown(mi.left)),
                   pos.y + speed * (KeyDown(mi.up) - KeyDown(mi.down)),
                   pos.z + speed * (KeyDown(mi.forward) - KeyDown(mi.backward)))

\* C20: a tick of the position-only controller reads and writes no data of
\* the target but the three coordinates (besides the pointers of the
\* chain, which it only reads); when it returns Ok with no movement key
\* down it has written nothing and returns false; when it returns Ok with
\* keys down it has written the position read plus moveSpeed times (right
\* - left, up - down, forward - backward) and returns true.
C20_PositionOnlyTick ==
    (tick.called /\ tick.kind = "basic") =>
        /\ \A k \in 1..Len(tick.log) :
              /\ tick.log[k].address \in DOMAIN camera_mem =>
                    tick.log[k].address \in PositionAddrs
              /\ tick.log[k].call = "WriteProcessMemory" =>
                    tick.log[k].address \in PositionAddrs
        /\ \A a \in DOMAIN camera_mem \ PositionAddrs :
              camera_mem[a] = tick.cam_before[a]
        /\ (tick.ok /\ ~has_movement(tick.in.keys)) =>
              /\ TickWrites = {}
              /\ ~tick.moved
              /\ camera_mem = tick.cam_before
        /\ (tick.ok /\ has_movement(tick.in.keys)) =>
              /\ tick.moved
              /\ tick.written[1]
                    = WorldMove(tick.read[1], tick.in.keys, TickAfter.move_speed)
              /\ get_position(TargetTransform(camera_mem)) = tick.written[1]

\* the position-only controller moved the camera with the left and the up
\* key down
C20_Witness ==
    /\ tick.called
    /\ tick.kind = "basic"
    /\ tick.ok
    /\ tick.moved
    /\ tick.in.keys.left /\ tick.in.keys.up

FullMatches ==
    { i \in 1..3 :
        /\ last.outs[i].ok
        /\ last.outs[i].n = 2
        /\ last.mem_before[addresses_to_try(base_addr)[i]] = SIG0
        /\ last.mem_before[addresses_to_try(base_addr)[i] + 1] = SIG1 }

\* C21: a discovery returns Ok; the address is that of the first candidate,
\* in their order, whose probe read two bytes that are 0xF3, 0xA5; without
\* such a candidate it is the first candidate.  The target is not written.
C21_DiscoveryFirstMatch ==
    last.op = "discover" =>
        /\ last.ok
        /\ patch_addr = last.address
        /\ mem = last.mem_before
        /\ FullMatches = {} => last.address = addresses_to_try(base_addr)[1]
        /\ \A i \in FullMatches :
              (\A j \in FullMatches : i <= j) =>
                  last.address = addresses_to_try(base_addr)[i]

\* the first candidate holds the signature but its probe came back short,
\* the second and the third match: the second is returned
C21_Witness ==
    /\ last.op = "discover"
    /\ last.mem_before[addresses_to_try(base_addr)[1]] = SIG0
    /\ last.outs[1].ok /\ last.outs[1].n = 1
    /\ FullMatches = { 2, 3 }
    /\ last.address = addresses_to_try(base_addr)[2]

(***************************************************************************)
(* Claims about the methods of CameraMatrix.                               *)
(***************************************************************************)
\* the elements of the position and of the fourth column
PositionElements == { 12, 13, 14 }
HomogeneousElements == { 3, 7, 11, 15 }

\* the calls made so far that are calls of op
CallsOf(op) ==
    { k \in DOMAIN camera_matrix.calls : camera_matrix.calls[k].op = op }

\* call k left the elements of S as they were
Kept(k, S) ==
    \A i \in S : camera_matrix.calls[k].after[i] = camera_matrix.calls[k].before[i]

\* C22: apply_pitch, apply_yaw and the reconstruction from yaw and pitch
\* leave elements 12-14 and 3, 7, 11, 15 as they were; apply_pitch leaves
\* 0, 4, 8 and apply_yaw 1, 5, 9 as they were too.
C22_RotationFrame ==
    /\ \A k \in CallsOf("apply_pitch") \cup CallsOf("apply_yaw")
                  \cup CallsOf("reconstruct_camera_matrix") :
          Kept(k, PositionElements \cup HomogeneousElements)
    /\ \A k \in CallsOf("apply_pitch") : Kept(k, { 0, 4, 8 })
    /\ \A k \in CallsOf("apply_yaw") : Kept(k, { 1, 5, 9 })

\* a pitch and then a yaw of the transform of no special form, each of
\* which changed the rows
C22_Witness ==
    /\ Len(camera_matrix.calls) = 2
    /\ camera_matrix.calls[1].before = SkewTransform
    /\ camera_matrix.calls[1].op = "apply_pitch"
    /\ camera_matrix.calls[2].op = "apply_yaw"
    /\ camera_matrix.calls[1].after # camera_matrix.calls[1].before
    /\ camera_matrix.calls[2].after # camera_matrix.calls[2].before

\* C23: after set_position(p), get_position gives p, whatever the matrix
\* held, and no element but 12, 13 and 14 has changed.
C23_SetGetPosition ==
    \A k \in CallsOf("set_position") :
        /\ get_position(camera_matrix.calls[k].after) = camera_matrix.calls[k].arg
        /\ Kept(k, (0..15) \ PositionElements)

\* a position with three different coordinates is set in the transform of
\* no special form, and changes it
C23_Witness ==
    /\ Len(camera_matrix.calls) = 1
    /\ camera_matrix.calls[1].op = "set_position"
    /\ camera_matrix.calls[1].before = SkewTransform
    /\ camera_matrix.calls[1].arg.y # camera_matrix.calls[1].arg.z
    /\ get_position(camera_matrix.data) # get_position(SkewTransform)

\* C24: apply_translation(dx, dy, dz) adds dx * row 0 + dy * row 1 +
\* dz * row 2, the third row as it is stored, to elements 12-14 and changes
\* no other element.  Row r is elements 4r, 4r + 1, 4r + 2.
C24_TranslationAlongRows ==
    \A k \in CallsOf("apply_translation") :
        LET c == camera_matrix.calls[k]
        IN  /\ \A i \in 0..2 :
                  c.after[12 + i] =
                      c.before[12 + i] + Mul(c.arg[1], c.before[i])
                                       + Mul(c.arg[2], c.before[4 + i])
                                       + Mul(c.arg[3], c.before[8 + i])
            /\ Kept(k, (0..15) \ PositionElements)

\* a step along all three rows of the level transform: the third row is
\* (-1, 0, 0), so x goes down by dz
C24_Witness ==
    /\ Len(camera_matrix.calls) = 1
    /\ camera_matrix.calls[1].op = "apply_translation"
    /\ camera_matrix.calls[1].before = LevelTransform
    /\ \A i \in 1..3 : camera_matrix.calls[1].arg[i] # 0
    /\ camera_matrix.data[12] = LevelTransform[12] - camera_matrix.calls[1].arg[3]

\* the sine and the cosine of the angle are -1, 0 or 1
ExactAngle(angle) ==
    /\ Sin(angle) \in { -ONE, 0, ONE }
    /\ Cos(angle) \in { -ONE, 0, ONE }

\* what the rounding of a product and of a sine may add up to over two
\* turns of a row whose elements are between -1 and 1
YawTolerance == ONE \div 100

\* the elements of the rows 0, 1 and 2
RowElements == { 0, 1, 2, 4, 5, 6, 8, 9, 10 }

\* C25: apply_yaw(angle) and then apply_yaw(-angle) give rows 0, 1 and 2
\* their values of before: the same values where the sine and the cosine
\* of the angle are exact, values within the tolerance elsewhere.
C25_YawInverse ==
    (/\ Len(camera_matrix.calls) = 2
     /\ camera_matrix.calls[1].op = "apply_yaw"
     /\ camera_matrix.calls[2].op = "apply_yaw"
     /\ camera_matrix.calls[2].arg = -camera_matrix.calls[1].arg) =>
        \A i \in RowElements :
            /\ Abs(camera_matrix.data[i] - camera_matrix.calls[1].before[i])
                   <= YawTolerance
            /\ ExactAngle(camera_matrix.calls[1].arg) =>
                   camera_matrix.data[i] = camera_matrix.calls[1].before[i]

\* a quarter turn and its inverse on the transform of no special form, the
\* quarter turn having changed the rows
C25_Witness ==
    /\ Len(camera_matrix.calls) = 2
    /\ camera_matrix.calls[1].op = "apply_yaw"
    /\ camera_matrix.calls[2].op = "apply_yaw"
    /\ camera_matrix.calls[1].arg = FRAC_PI_2
    /\ camera_matrix.calls[2].arg = -FRAC_PI_2
    /\ camera_matrix.calls[1].before = SkewTransform
    /\ camera_matrix.calls[1].after # SkewTransform
    /\ camera_matrix.data = SkewTransform

\* a twelfth of a turn and its inverse, where the sine is not exact
C25_WitnessInexact ==
    /\ Len(camera_matrix.calls) = 2
    /\ camera_matrix.calls[1].op = "apply_yaw"
    /\ camera_matrix.calls[2].op = "apply_yaw"
    /\ camera_matrix.calls[1].arg = PI \div 6
    /\ camera_matrix.calls[2].arg = -(PI \div 6)

\* row r of a transform as a vector: 0 right, 1 up
Row(data, r) == CameraPosition(data[4 * r], data[4 * r + 1], data[4 * r + 2])

\* the scalar product of two vectors
Dot(u, v) == Mul(u.x, v.x) + Mul(u.y, v.y) + Mul(u.z, v.z)

\* C26: the rows reconstructed from yaw 0 and pitch 0 give a transform
\* whose get_forward is (1, 0, 0) and whose right and up rows have length
\* one and are orthogonal to each other and to forward.
C26_LevelReconstruction ==
    \A k \in CallsOf("reconstruct_camera_matrix") :
        camera_matrix.calls[k].arg = << 0, 0 >> =>
            LET after   == camera_matrix.calls[k].after
                forward == get_forward(after)
                right   == Row(after, 0)
                up      == Row(after, 1)
            IN  /\ forward = CameraPosition(ONE, 0, 0)
                /\ Dot(right, right) = ONE
                /\ Dot(up, up) = ONE
                /\ Dot(right, up) = 0
                /\ Dot(right, forward) = 0
                /\ Dot(up, forward) = 0

\* yaw 0 and pitch 0 are reconstructed in the transform of no special
\* form, none of whose rows is a unit vector
C26_Witness ==
    /\ Len(camera_matrix.calls) = 1
    /\ camera_matrix.calls[1].op = "reconstruct_camera_matrix"
    /\ camera_matrix.calls[1].arg = << 0, 0 >>
    /\ camera_matrix.calls[1].before = SkewTransform
    /\ camera_matrix.data # SkewTransform

\* C27: get_forward gives the negation of elements 8, 9 and 10; on the
\* identity that CameraMatrix::new makes it gives (0, 0, -1).
C27_ForwardIsNegatedThirdRow ==
    /\ pc = "matrix" =>
          get_forward(camera_matrix.data) =
              CameraPosition(-camera_matrix.data[8], -camera_matrix.data[9],
                             -camera_matrix.data[10])
    /\ \A k \in CallsOf("new") :
          get_forward(camera_matrix.calls[k].after) = CameraPosition(0, 0, -ONE)

\* CameraMatrix::new was called last, after a call that left a third row
\* other than that of the identity
C27_Witness ==
    /\ Len(camera_matrix.calls) = 2
    /\ camera_matrix.calls[2].op = "new"
    /\ camera_matrix.calls[2].before[8] # 0
    /\ camera_matrix.data = CameraMatrix_new

(***************************************************************************)
(* Claims about the mouse handler.                                         *)
(***************************************************************************)
\* the samples get_delta took of the cursor while mouse look was enabled
SamplesTaken ==
    { k \in DOMAIN cursor.samples :
        cursor.samples[k].enabled /\ cursor.samples[k].cursor_read }

\* C28: while mouse look is enabled, get_delta leaves the cursor on the
\* screen centre after every sample it takes, and the delta it reports is
\* the movement of the cursor since the sample before it.
C28_RecentredAfterEverySample ==
    \A k \in SamplesTaken :
        /\ cursor.samples[k].at_after = << 0, 0 >>
        /\ cursor.samples[k].delta =
              << cursor.samples[k].moved[1] * controller[1].mouse_handler.sensitivity,
                 cursor.samples[k].moved[2] * controller[1].mouse_handler.sensitivity >>

\* the cursor was moved by one pixel and then left alone: two samples in a
\* row report that pixel, and the cursor is still off the centre
C28_RestingCursorReportedTwice ==
    /\ Len(cursor.samples) = 2
    /\ SamplesTaken = { 1, 2 }
    /\ cursor.samples[1].moved = << 1, 0 >>
    /\ cursor.samples[2].moved = << 0, 0 >>
    /\ cursor.samples[2].delta = cursor.samples[1].delta
    /\ cursor.samples[2].delta[1] > DEAD_ZONE
    /\ cursor.at = << 1, 0 >>

(***************************************************************************)
(* Claims about the camera accessors.                                      *)
(***************************************************************************)
\* C29: on one state of the target, the addresses of the elements 12, 13
\* and 14 of the matrix that get_camera_matrix reads (its start + 48, + 52,
\* + 56) are the addresses get_camera_addresses gives for X, Y and Z, the
\* matrix accessor and the position accessor succeed together, and the
\* position of the matrix read is the position get_camera_position reads.
C29_MatrixAndPositionAgree ==
    pc = "tick" =>
        \A m \in { get_camera_matrix(target_ptrs, camera_mem, base_addr, 0) } :
        \A p \in { get_camera_position(target_ptrs, camera_mem, base_addr, 0) } :
        \A a \in { get_camera_addresses(target_ptrs, base_addr, 0) } :
            /\ m.ok = p.ok
            /\ m.ok = a.ok
            /\ m.ok =>
                  /\ a.addrs = << AddOffset(m.addr, 12 * SIZE_OF_T),
                                  AddOffset(m.addr, 13 * SIZE_OF_T),
                                  AddOffset(m.addr, 14 * SIZE_OF_T) >>
                  /\ get_position(m.data) = p.pos

\* a tick has moved the camera, and both accessors read the new position
C29_Witness ==
    /\ pc = "tick"
    /\ tick.called /\ tick.ok /\ tick.moved
    /\ get_camera_matrix(target_ptrs, camera_mem, base_addr, 0).ok
    /\ get_camera_position(target_ptrs, camera_mem, base_addr, 0).pos
          = get_position(get_camera_matrix(target_ptrs, camera_mem, base_addr, 0).data)
    /\ get_camera_position(target_ptrs, camera_mem, base_addr, 0).pos
          # CameraPosition(StartPosition[1], StartPosition[2], StartPosition[3])

(***************************************************************************)
(* Claims about the patch held by the run loop.                            *)
(***************************************************************************)
\* the run loop holds a patch that says it is applied
HoldsApplied == camera_patch # None /\ camera_patch[1].is_applied

\* the candidate holds what the game's code holds there: nothing but the
\* run loop writes to it, so that is the signature or the other bytes
OriginalAt(site) ==
    BytesAt(mem, site, PATCH_LENGTH) \in
        { [ i \in 1..PATCH_LENGTH |-> SigBytes(i - 1) ],
          [ i \in 1..PATCH_LENGTH |-> OtherBytes(i - 1) ] }

\* C30: in the run loop, whatever OS call failed, a patch with is_applied
\* true is held exactly when the bytes at its site are the no-op bytes, and
\* none or one with is_applied false exactly when the original bytes are in
\* place.
C30_FlagMatchesBytes ==
    pc \in LoopPcs =>
        /\ HoldsApplied =>
              BytesAt(mem, camera_patch[1].address, PATCH_LENGTH)
                  = nop_bytes(PATCH_LENGTH)
        /\ ~HoldsApplied => \A site \in Sites : OriginalAt(site)

\* a patch is held as applied while its site holds one no-op byte only
C30_HalfWritten ==
    /\ pc \in LoopPcs
    /\ HoldsApplied
    /\ mem[camera_patch[1].address] = NOP
    /\ mem[camera_patch[1].address + 1] # NOP

\* a patch is held as restored while its site holds the zero of a short
\* read where the second original byte was
C30_RestoredWrong ==
    /\ pc \in LoopPcs
    /\ camera_patch # None /\ ~camera_patch[1].is_applied
    /\ mem[camera_patch[1].address + 1] = ZERO

(***************************************************************************)
(* Claims about the patch key.                                             *)
(***************************************************************************)
\* this step starts an attempt on the patch: a discovery that patch_with_nops
\* follows, or restore_patch
AttemptStarts == pc = "patch_toggle" /\ (pc' = "patch_apply" \/ ops' = ops + 1)

\* C31: the patch toggle acts on the edge of the key.  An iteration that
\* reads the key as down while the flag of the last attempt is set makes no
\* attempt and changes nothing of the patch; an attempt is made only with
\* the flag clear and sets it; the flag is cleared only by an iteration that
\* reads the key as neither pressed nor pressed since the last poll.
C31_EdgeTriggered ==
    [][ /\ AttemptStarts =>
              /\ ~patch_toggle_pressed
              /\ patch_poll'.down
        /\ pc = "patch_apply" => patch_toggle_pressed'
        /\ (pc = "patch_toggle" /\ ops' = ops + 1) => patch_toggle_pressed'
        /\ (/\ pc = "patch_toggle"
            /\ patch_toggle_pressed
            /\ patch_poll'.down) =>
              /\ ~AttemptStarts
              /\ patch_toggle_pressed'
              /\ UNCHANGED << mem, prot, camera_patch, ops, last >>
        /\ (patch_toggle_pressed /\ ~patch_toggle_pressed') =>
              /\ pc = "patch_toggle"
              /\ ~patch_poll'.down
      ]_vars

\* the patch was applied in an earlier iteration; this one has read the key
\* as down and has made no attempt
C31_Witness ==
    /\ pc = "update"
    /\ ops = 1
    /\ camera_patch # None /\ camera_patch[1].is_applied
    /\ patch_toggle_pressed
    /\ patch_poll.down
    /\ ~patch_poll.attempted

\* a second attempt was made: the key was read as up in between
C31_SecondAttempt ==
    /\ pc = "update"
    /\ ops = 2
    /\ patch_poll.attempted
    /\ last.op = "restore"

(***************************************************************************)
(* Claims about a write-back that fails.                                   *)
(***************************************************************************)
\* the last call the last tick issued was a write that failed
WriteFailed ==
    /\ tick.called
    /\ Len(tick.log) > 0
    /\ tick.log[Len(tick.log)].call = "WriteProcessMemory"
    /\ ~tick.log[Len(tick.log)].ok

\* the writes of the last tick, in the order of their issue
WriteLog == SelectSeq(tick.log, LAMBDA e : e.call = "WriteProcessMemory")

\* the addresses of X, Y and Z in their order
PositionAddrSeq ==
    << AddOffset(ChainPointers[Len(ChainPointers)], x_offset),
       AddOffset(ChainPointers[Len(ChainPointers)], y_offset),
       AddOffset(ChainPointers[Len(ChainPointers)], z_offset) >>

\* X, Y and Z of a position in their order
Coordinates(pos) == << pos.x, pos.y, pos.z >>

\* C32: set_camera_matrix writes the elements one call each in ascending
\* order and stops at the first write that fails: when the write of
\* element i fails the tick returns Err, elements 0..i-1 of the target hold
\* the new values and elements i..15 the old ones.  set_camera_position
\* does the same with X, Y and Z.
C32_WriteBackPrefix ==
    WriteFailed =>
        /\ ~tick.ok
        /\ tick.kind = "matrix" =>
              /\ \A k \in 1..Len(WriteLog) :
                    /\ WriteLog[k].address = AddOffset(MatrixAddr, (k - 1) * SIZE_OF_T)
                    /\ WriteLog[k].arg = tick.written[1][k - 1]
              /\ \A j \in 0..(MATRIX_LEN - 1) :
                    TargetTransform(camera_mem)[j] =
                        IF j < Len(WriteLog) - 1 THEN tick.written[1][j]
                        ELSE TargetTransform(tick.cam_before)[j]
        /\ tick.kind = "basic" =>
              /\ \A k \in 1..Len(WriteLog) :
                    /\ WriteLog[k].address = PositionAddrSeq[k]
                    /\ WriteLog[k].arg = Coordinates(tick.written[1])[k]
              /\ \A j \in 1..3 :
                    camera_mem[PositionAddrSeq[j]] =
                        IF j < Len(WriteLog) THEN Coordinates(tick.written[1])[j]
                        ELSE tick.cam_before[PositionAddrSeq[j]]

\* the write of element 6 failed in a tick that moved the camera: the
\* target holds a transform that is neither the one read nor the one
\* computed
C32_Witness ==
    /\ WriteFailed
    /\ tick.kind = "matrix"
    /\ Len(WriteLog) = 7
    /\ TargetTransform(camera_mem) # tick.written[1]
    /\ TargetTransform(camera_mem) # TargetTransform(tick.cam_before)

\* the write of Y failed after X was written
C32_WitnessPosition ==
    /\ WriteFailed
    /\ tick.kind = "basic"
    /\ Len(WriteLog) = 2
    /\ camera_mem[PositionAddrSeq[1]] # tick.cam_before[PositionAddrSeq[1]]

(***************************************************************************)
(* Claims about a tick whose read fails.                                   *)
(***************************************************************************)
\* C33: a tick of the matrix controller whose read of the transform fails
\* returns Err, issues no write, leaves the target as it was and leaves
\* every field of the controller but move_speed as it was (yaw, pitch,
\* last_position and the mouse handler among them).
C33_FailedReadFrame ==
    [][ (/\ pc = "tick"
         /\ mode = "matrix"
         /\ moves' = moves + 1
         /\ tick'.read = None) =>
            /\ ~tick'.ok
            /\ \A k \in 1..Len(tick'.log) : tick'.log[k].call # "WriteProcessMemory"
            /\ camera_mem' = camera_mem
            /\ controller'[1] =
                  [ controller[1] EXCEPT !.move_speed = controller'[1].move_speed ]
      ]_vars

\* the read failed at an element of the transform in a tick that got the
\* signal to raise the speed: the speed is raised
C33_Witness ==
    /\ tick.called
    /\ tick.kind = "matrix"
    /\ tick.read = None
    /\ \E k \in FailedCalls : tick.log[k].address \in DOMAIN camera_mem
    /\ tick.in.speed_delta > 0
    /\ moves = 1
    /\ controller[1].move_speed > tick.before[1].move_speed
    /\ controller[1].yaw = tick.before[1].yaw

\* the read failed in a tick with mouse look on and the cursor off the centre
C33_WitnessMouse ==
    /\ tick.called
    /\ tick.kind = "matrix"
    /\ tick.read = None
    /\ tick.before[1].mouse_handler.enabled
    /\ tick.in.cursor = Some(<< 3, 0 >>)

(***************************************************************************)
(* Claims about the seeding of the angles.                                 *)
(***************************************************************************)
\* C34: with yaw and pitch seeded from the forward vector of a transform
\* and the rows reconstructed from these angles, no mouse delta added,
\* get_forward of the result is the forward vector the angles were seeded
\* from, in all three components.
C34_SeedReconstructForward ==
    \A k \in CallsOf("seed_and_reconstruct") :
        get_forward(camera_matrix.calls[k].after)
            = get_forward(camera_matrix.calls[k].before)

\* the rows were reconstructed for yaw 0 and a pitch of a twelfth of a turn:
\* forward is (0.866, 0.5, 0).  Seeded from that, the pitch is minus a
\* twelfth of a turn, and the forward reconstructed is (0.866, -0.5, 0)
C34_PitchFlipped ==
    /\ Len(camera_matrix.calls) = 2
    /\ camera_matrix.calls[1].op = "reconstruct_camera_matrix"
    /\ camera_matrix.calls[1].arg = << 0, PI \div 6 >>
    /\ camera_matrix.calls[2].op = "seed_and_reconstruct"
    /\ camera_matrix.calls[2].arg = << 0, -(PI \div 6) >>
    /\ get_forward(camera_matrix.calls[2].before).y = ONE \div 2
    /\ get_forward(camera_matrix.data).y = -(ONE \div 2)
    /\ get_forward(camera_matrix.data).x = get_forward(camera_matrix.calls[2].before).x
    /\ get_forward(camera_matrix.data).z = get_forward(camera_matrix.calls[2].before).z

\* seeded from a level transform, the forward vector comes back as it was
C34_LevelKept ==
    /\ Len(camera_matrix.calls) = 1
    /\ camera_matrix.calls[1].op = "seed_and_reconstruct"
    /\ camera_matrix.calls[1].before = LevelTransform
    /\ get_forward(camera_matrix.data) = get_forward(LevelTransform)

(***************************************************************************)
(* Claims about the keys in a tick of the matrix controller.               *)
(***************************************************************************)
\* the last tick was one of the matrix controller that wrote a transform
\* back with no rotation applied: mouse look was off or the delta was
\* inside the dead zone
UnturnedWriteBack ==
    /\ tick.called
    /\ tick.kind = "matrix"
    /\ tick.written # None
    /\ \/ ~TickBefore.mouse_handler.enabled
       \/ Abs(TickDelta[1]) <= DEAD_ZONE /\ Abs(TickDelta[2]) <= DEAD_ZONE

\* only the key named is down
OnlyKey(keys, name) ==
    keys = [ k \in DOMAIN MovementInput_new |-> k = name ]

\* the position pos moved by sign * speed along the third row of data
AlongThirdRow(pos, data, speed, sign) ==
    CameraPosition(pos.x + sign * Mul(speed, data[8]),
                   pos.y + sign * Mul(speed, data[9]),
                   pos.z + sign * Mul(speed, data[10]))

\* C35: in a tick of the matrix controller with only the forward key down
\* and no rotation applied, the position written back is the position read
\* plus move_speed times the third row of the transform as it is stored,
\* that is the position read minus move_speed times get_forward(); with
\* only the backward key down it is the position read minus move_speed
\* times the third row.
C35_ForwardKeyAlongThirdRow ==
    UnturnedWriteBack =>
        /\ OnlyKey(tick.in.keys, "forward") =>
              /\ get_position(tick.written[1]) =
                    AlongThirdRow(get_position(tick.read[1]), tick.read[1],
                                  TickBefore.move_speed, 1)
              /\ get_position(tick.written[1]).x =
                    get_position(tick.read[1]).x
                        - Mul(TickBefore.move_speed, get_forward(tick.read[1]).x)
              /\ get_position(tick.written[1]).y =
                    get_position(tick.read[1]).y
                        - Mul(TickBefore.move_speed, get_forward(tick.read[1]).y)
              /\ get_position(tick.written[1]).z =
                    get_position(tick.read[1]).z
                        - Mul(TickBefore.move_speed, get_forward(tick.read[1]).z)
        /\ OnlyKey(tick.in.keys, "backward") =>
              get_position(tick.written[1]) =
                  AlongThirdRow(get_position(tick.read[1]), tick.read[1],
                                TickBefore.move_speed, -1)

\* the forward key alone on the level transform, whose get_forward() is
\* (1, 0, 0): x has gone down by move_speed
C35_Witness ==
    /\ UnturnedWriteBack
    /\ tick.ok
    /\ OnlyKey(tick.in.keys, "forward")
    /\ tick.read[1] = LevelTransform
    /\ get_forward(tick.read[1]) = CameraPosition(ONE, 0, 0)
    /\ get_position(tick.written[1]).x = LevelTransform[12] - TickBefore.move_speed
    /\ get_position(TargetTransform(camera_mem)) = get_position(tick.written[1])

\* the backward key alone
C35_WitnessBackward ==
    /\ UnturnedWriteBack
    /\ tick.ok
    /\ OnlyKey(tick.in.keys, "backward")
    /\ get_position(tick.written[1]).x = LevelTransform[12] + TickBefore.move_speed

\* some key is down and every key down is cancelled by its opposite
CancellingKeys(keys) ==
    /\ \E k \in DOMAIN keys : keys[k]
    /\ keys.forward = keys.backward
    /\ keys.left = keys.right
    /\ keys.up = keys.down

\* the last tick was one of the matrix controller that read the transform,
\* with keys down that cancel each other and with no rotation applied
CancelledTick ==
    /\ tick.called
    /\ tick.kind = "matrix"
    /\ tick.read # None
    /\ CancellingKeys(tick.in.keys)
    /\ \/ ~TickBefore.mouse_handler.enabled
       \/ Abs(TickDelta[1]) <= DEAD_ZONE /\ Abs(TickDelta[2]) <= DEAD_ZONE

\* C36: when movement keys are down but cancel each other and no rotation
\* is applied, the tick of the matrix controller still starts the
\* write-back, and where no call of the operating system fails it writes
\* all 16 elements, marks moved and returns true, and the transform written
\* is the transform read.
C36_CancelledKeysStillWrite ==
    CancelledTick =>
        /\ TickWrites # {}
        /\ tick.written = tick.read
        /\ FailedCalls = {} =>
              /\ tick.ok
              /\ tick.moved
              /\ Cardinality(TickWrites) = MATRIX_LEN
              /\ TargetTransform(camera_mem) = tick.read[1]
              /\ TargetTransform(tick.cam_before) = tick.read[1]

\* forward with backward and up with down on a skewed transform at a speed
\* above zero: 16 writes and the tick returned true
C36_Witness ==
    /\ CancelledTick
    /\ tick.in.keys.forward /\ tick.in.keys.backward
    /\ tick.in.keys.up /\ tick.in.keys.down
    /\ tick.read[1] # LevelTransform
    /\ TickBefore.move_speed > 0
    /\ tick.ok /\ tick.moved
    /\ Cardinality(TickWrites) = MATRIX_LEN

\* left with right
C36_WitnessLeftRight ==
    /\ CancelledTick
    /\ tick.in.keys.left /\ tick.in.keys.right
    /\ tick.ok /\ tick.moved
    /\ Cardinality(TickWrites) = MATRIX_LEN

(***************************************************************************)
(* Claims about ticks with mouse look disabled.                            *)
(***************************************************************************)
\* the elements of a transform that are not its position: 0-11 and 15
RotationElements == (0..15) \ PositionElements

\* the last tick was one of the matrix controller with mouse look disabled
\* that started a write-back
DisabledWriteBack ==
    /\ tick.called
    /\ tick.kind = "matrix"
    /\ ~TickBefore.mouse_handler.enabled
    /\ tick.written # None

\* C37: while mouse look is disabled, no step changes yaw or pitch of a
\* controller that has been seeded (last_position is set), and in every
\* tick that writes the transform back the elements 0-11 and 15 written are
\* those read in the same tick: the keys change elements 12-14 only.
C37_DisabledMouseKeepsRotation ==
    /\ [](DisabledWriteBack =>
            \A i \in RotationElements : tick.written[1][i] = tick.read[1][i])
    /\ [][ (/\ mode = "matrix"
            /\ controller # None
            /\ controller' # None
            /\ ~controller[1].mouse_handler.enabled
            /\ controller[1].last_position # None) =>
               /\ controller'[1].yaw = controller[1].yaw
               /\ controller'[1].pitch = controller[1].pitch ]_vars

\* a tick of a seeded controller with mouse look disabled, the cursor away
\* from the centre and a key down: the position was written and moved
C37_Witness ==
    /\ DisabledWriteBack
    /\ tick.ok
    /\ TickBefore.last_position # None
    /\ tick.in.cursor # None
    /\ tick.in.cursor[1] # << 0, 0 >>
    /\ has_movement(tick.in.keys)
    /\ \E i \in PositionElements : tick.written[1][i] # tick.read[1][i]
    /\ TickAfter.yaw = TickBefore.yaw
    /\ TickAfter.pitch = TickBefore.pitch

(***************************************************************************)
(* A tick of the matrix controller, call by call, beside the target.       *)
(*                                                                         *)
(* The target is another process: it is not suspended while the tool       *)
(* reads its memory, and while the patch is not applied its own code       *)
(* stores the camera transform every frame.  get_camera_matrix reads the   *)
(* 16 elements with 16 calls of ReadProcessMemory (process.rs:381-383),    *)
(* so the target can store between two of them.  The target's store is     *)
(* taken here as one step, and so is the write-back of the tick: both      *)
(* favour the tool.                                                        *)
(***************************************************************************)
MaxTargetStores == 2

RaceInit ==
    /\ mem = << >>
    /\ prot = << >>
    /\ camera_patch = None
    /\ patch_toggle_pressed = FALSE
    /\ patch_poll = NoPoll
    /\ patch_addr = 0
    /\ pc = "update_camera"
    /\ ops = 0
    /\ last = NoOperation
    /\ first_site = None
    /\ target_ptrs \in TargetChains
    /\ resolved = NotResolved
    /\ access = NoAccess
    /\ process_handle = attach(<< TRUE, TRUE, TRUE >>)
    /\ mode = "matrix"
    /\ controller \in { Some(c) : c \in StartControllers("matrix") }
    /\ mouse_toggle_pressed = FALSE
    /\ camera_mem \in { CameraData(data) : data \in StartTransforms }
    /\ startup = [ position |-> "ok", matrix |-> "ok" ]
    /\ tick = NoTick
    /\ moves = 0
    /\ camera_matrix = NoMatrix
    /\ cursor = NoCursor

\* what no step of this specification changes
RaceFrame ==
    /\ UNCHANGED << cursor, moves, process_handle, mode, mouse_toggle_pressed,
                    startup >>
    /\ UNCHANGED patchVars
    /\ UNCHANGED resolveVars
    /\ UNCHANGED accessVars

\* the calls of ReadProcessMemory for elements that get_camera_matrix has
\* issued, and the stores of the target
ElementReads == CallsOf("read_memory")
TargetStores == CallsOf("target_store")

\* controller.rs:105, process.rs:371-380: update_camera calls
\* get_camera_matrix, which resolves the address of the transform and
\* zeroes its array
ResolveMatrix ==
    /\ pc = "update_camera"
    /\ field_chain(target_ptrs, base_addr, matrix_offset, 0, 0).ok
    /\ pc' = "get_camera_matrix"
    /\ camera_matrix' = [ data  |-> [ i \in 0..(MATRIX_LEN - 1) |-> 0 ],
                          calls |-> << >> ]
    /\ tick' = [ NoTick EXCEPT !.kind = "matrix", !.before = controller,
                               !.cam_before = camera_mem ]
    /\ UNCHANGED << controller, camera_mem >>
    /\ RaceFrame

\* process.rs:381-383: one turn of the loop, data[i] = read_memory(...)
ReadElement ==
    /\ pc = "get_camera_matrix"
    /\ \E i \in { Cardinality(ElementReads) } :
       \E ch \in { field_chain(target_ptrs, base_addr, matrix_offset, 0, 0) } :
          /\ i < MATRIX_LEN
          /\ camera_matrix' =
                MatrixCall("read_memory", i,
                           [ camera_matrix.data EXCEPT
                               ![i] = camera_mem[AddOffset(ch.addr, i * SIZE_OF_T)] ])
          /\ pc' = IF i = MATRIX_LEN - 1 THEN "steer" ELSE "get_camera_matrix"
    /\ UNCHANGED << controller, camera_mem, tick >>
    /\ RaceFrame

\* the target stores its camera transform: the instruction that
\* patch_with_nops replaces is in place (main.rs:141, 148)
TargetStore ==
    /\ camera_patch = None
    /\ pc \in { "get_camera_matrix", "steer" }
    /\ Cardinality(TargetStores) < MaxTargetStores
    /\ \E t \in StartTransforms :
          /\ t # TargetTransform(camera_mem)
          /\ camera_mem' = CameraData(t)
          /\ camera_matrix' = MatrixCall("target_store", t, camera_matrix.data)
    /\ UNCHANGED << controller, tick, pc >>
    /\ RaceFrame

\* controller.rs:110-164: the rest of the tick on the transform that
\* get_camera_matrix returned
SteerAndWriteBack ==
    /\ pc = "steer"
    /\ \E c \in { controller[1] } :
       \E in \in { QuietInput, [ QuietInput EXCEPT !.keys.forward = TRUE ] } :
       \E st \in { steer(seed_from(c, camera_matrix.data), camera_matrix.data, in) } :
       \E r \in { IF st.moved
                  THEN write_back(st.controller, target_ptrs, camera_mem, base_addr,
                                  st.data,
                                  [ data |-> camera_matrix.data, log |-> << >> ], 0)
                  ELSE TickResult(TRUE, FALSE, "", st.controller, camera_mem, << >>,
                                  Some(camera_matrix.data), None) } :
          /\ controller' = Some(r.controller)
          /\ camera_mem' = r.cam
          /\ tick' = [ TickRecord("matrix", c, in, r, "none") EXCEPT
                         !.cam_before = tick.cam_before ]
    /\ pc' = "done"
    /\ UNCHANGED camera_matrix
    /\ RaceFrame

RaceNext == ResolveMatrix \/ ReadElement \/ TargetStore \/ SteerAndWriteBack

RaceSpec == RaceInit /\ [][RaceNext]_vars

\* the transforms the target held from the start of the tick to the last
\* read of an element
HeldTransforms ==
    { TargetTransform(tick.cam_before) }
    \cup { camera_matrix.calls[k].arg :
             k \in { s \in TargetStores : \E j \in ElementReads : s < j } }

\* C38: the 16 elements that get_camera_matrix returns all come from one
\* state of the target's memory, also when the target stores its camera
\* transform while the tool reads (patch not applied); and the transform
\* that a tick writes back is derived from a transform that the target
\* held at one instant.
C38_SnapshotRead ==
    /\ pc \in { "steer", "done" } => camera_matrix.data \in HeldTransforms
    /\ (pc = "done" /\ tick.written # None) =>
          /\ tick.read[1] \in HeldTransforms
          /\ \E h \in HeldTransforms : \E c \in { tick.before[1] } :
                tick.written[1] = steer(seed_from(c, h), h, tick.in).data

\* what get_camera_matrix returned has elements of two transforms of the
\* target and is neither of them
C38_TornRead ==
    /\ pc = "steer"
    /\ Cardinality(TargetStores) = 1
    /\ camera_matrix.data \notin HeldTransforms
    /\ \A i \in 0..(MATRIX_LEN - 1) :
          \E h \in HeldTransforms : camera_matrix.data[i] = h[i]

\* a tick wrote back a transform made from a torn read
C38_TornWriteBack ==
    /\ pc = "done"
    /\ tick.ok
    /\ tick.written # None
    /\ tick.read[1] \notin HeldTransforms
    /\ TargetTransform(camera_mem) = tick.written[1]

\* with no store of the target during the read, the 16 calls return what
\* get_camera_matrix returns as one step
C38_QuietReadIsSnapshot ==
    (pc \in { "steer", "done" } /\ TargetStores = {}) =>
        camera_matrix.data =
            get_camera_matrix(target_ptrs, tick.cam_before, base_addr, 0).data
====
